---- MODULE Spec2Model ----
(***************************************************************************)
(* Sprite-atlas builder: the two rectangle packers (MaxRectangles and      *)
(* Shelf), their width x sort-order search, the image grouper, the         *)
(* multi-atlas packer and the algorithm selector.                          *)
(*                                                                         *)
(* Units.  x coordinates, widths and heights of frames are pixels.  The    *)
(* Shelf packer centres frames with "/ 2", so a frame's y and a layout's   *)
(* height can be a half pixel: both are kept in units of 1/YU pixel        *)
(* (y = YU * pixels).  Every comparison is scaled accordingly.             *)
(*                                                                         *)
(* Floating point.  The JavaScript scores and efficiencies are doubles;    *)
(* they are modelled as exact rationals (cross-multiplied integers).       *)
(***************************************************************************)
EXTENDS Integers, Sequences, FiniteSets, TLC

VARIABLES
    images,            \* the input list of items [name, width, height]
    padding,           \* configured padding
    maxWidth,          \* configured maximum width
    usePowerOfTwo,     \* power-of-two output mode
    packingAlgorithm,  \* MultiAtlasPacker.packingAlgorithm
    maxImagesPerAtlas, \* MultiAtlasPacker.maxImagesPerAtlas
    call,              \* the operation applied to the input
    attempts,          \* what the packer returned to each iteration of the search
    result,            \* what a packer search returned
    mergedGroups,      \* ImageGrouper: the groups after mergeSmallGroups
    groups,            \* ImageGrouper: the groups returned by groupImages
    atlases,           \* MultiAtlasPacker.pack: the atlases returned
    statistics,        \* SmartAlgorithmSelector.statistics
    history,           \* SmartAlgorithmSelector.history
    now,               \* the clock Date.now() reads
    recorded,          \* the recordResult calls made on the selector so far
    returned,          \* what the selector's last method call returned
    cache,             \* AlgorithmCache.cache: the entries [key, value], oldest first
    maxSize,           \* AlgorithmCache.maxSize
    hits,              \* AlgorithmCache.hits
    misses,            \* AlgorithmCache.misses
    recency,           \* the keys of the cache, the least recently used first
    evicted,           \* the key the last set deleted and the key that was least recently used
    atlasFrames,       \* AppState.canvas and AppState.frames: the atlas installed
    isProcessing,      \* AppState.isProcessing
    generating,        \* the generateAtlas calls waiting for their packer
    isEnabled,         \* MonitoringAnalytics.isEnabled
    processing,        \* BatchProcessor.processing
    runs               \* the processBatch runs that have not finished

vars == <<images, padding, maxWidth, usePowerOfTwo, packingAlgorithm,
          maxImagesPerAtlas, call, attempts, result, mergedGroups, groups, atlases,
          statistics, history, now, recorded, returned,
         cache, maxSize, hits, misses, recency, evicted,
         atlasFrames, isProcessing, generating, isEnabled, processing, runs>>

selectorVars == <<statistics, history, now, recorded, returned>>
cacheVars == <<cache, maxSize, hits, misses, recency, evicted>>
appVars == <<cacheVars, atlasFrames, isProcessing, generating, isEnabled,
             processing, runs>>

-----------------------------------------------------------------------------
(* Program constants *)

MAX_ATLAS_SIZE == 2048          \* Math.min(maxWidth, 2048); finalWidth > 2048
WORK_HEIGHT == 4096             \* free rectangle height; newY > 4096
MAX_POW == 11                   \* for (let pow = 11; ...
MIN_POW == 6                    \* ... pow >= 6; pow--)
MIN_RAW_WIDTH == 256            \* alignedWidth >= 256
ALIGN == 16                     \* Math.ceil(estimatedWidth / 16) * 16
FALLBACK_WIDTH == 1024          \* widthOptions.push(usePowerOfTwo ? 1024 : ...)
YU == 2                         \* y unit: the "/ 2" of the Shelf centring
Infinity == 2000000000          \* larger than any leftover the packers compare

Min(a, b) == IF a < b THEN a ELSE b
Max(a, b) == IF a > b THEN a ELSE b
Abs(a) == IF a < 0 THEN -a ELSE a

RemoveAt(s, i) == SubSeq(s, 1, i - 1) \o SubSeq(s, i + 1, Len(s))

\* null: a packer that returns no layout
null == [ok |-> FALSE]
Layout(frames, width, height) ==
    [ok |-> TRUE, frames |-> frames, width |-> width, height |-> height]

RECURSIVE Pow2(_)
Pow2(k) == IF k = 0 THEN 1 ELSE 2 * Pow2(k - 1)

\* Math.pow(2, Math.ceil(Math.log2(Math.max(1, n)))), n given as num/den
RECURSIVE nextPowerOf2From(_, _, _)
nextPowerOf2From(p, num, den) ==
    IF p * den >= num THEN p ELSE nextPowerOf2From(2 * p, num, den)
\* a variant with the exponent one too high
nextPowerOf2Double(num, den) == 2 * nextPowerOf2From(1, num, den)
\* a variant that rounds up to the next integer only
nextPowerOf2Ceil(num, den) == (Max(num, den) + den - 1) \div den

nextPowerOf2(num, den) == nextPowerOf2From(1, num, den)

\* (a & (a - 1)) === 0
RECURSIVE IsPow2(_)
IsPow2(a) == IF a <= 1 THEN TRUE
             ELSE IF a % 2 = 1 THEN FALSE ELSE IsPow2(a \div 2)

RECURSIVE SumArea(_)
SumArea(imgs) ==
    IF imgs = <<>> THEN 0
    ELSE Head(imgs).width * Head(imgs).height + SumArea(Tail(imgs))

-----------------------------------------------------------------------------
(* Sort strategies: [...images].sort(strategy.fn), a stable sort *)

MaxRectsStrategies == <<"areaDesc", "maxEdgeDesc", "perimeterDesc">>

ShelfStrategies ==
    <<"areaDesc", "areaAsc", "widthDesc", "widthAsc", "heightDesc", "heightAsc",
      "maxEdgeDesc", "maxEdgeAsc", "minEdgeDesc", "minEdgeAsc",
      "aspectDesc", "aspectAsc", "perimeterDesc", "perimeterAsc">>

\* the sign of strategy.fn(a, b)
StrategyFn(s, a, b) ==
    CASE s = "areaDesc"      -> b.width * b.height - a.width * a.height
      [] s = "areaAsc"       -> a.width * a.height - b.width * b.height
      [] s = "widthDesc"     -> b.width - a.width
      [] s = "widthAsc"      -> a.width - b.width
      [] s = "heightDesc"    -> b.height - a.height
      [] s = "heightAsc"     -> a.height - b.height
      [] s = "maxEdgeDesc"   -> Max(b.width, b.height) - Max(a.width, a.height)
      [] s = "maxEdgeAsc"    -> Max(a.width, a.height) - Max(b.width, b.height)
      [] s = "minEdgeDesc"   -> Min(b.width, b.height) - Min(a.width, a.height)
      [] s = "minEdgeAsc"    -> Min(a.width, a.height) - Min(b.width, b.height)
      \* b.width / b.height - a.width / a.height, cross-multiplied
      [] s = "aspectDesc"    -> b.width * a.height - a.width * b.height
      [] s = "aspectAsc"     -> a.width * b.height - b.width * a.height
      [] s = "perimeterDesc" -> (b.width + b.height) - (a.width + a.height)
      [] s = "perimeterAsc"  -> (a.width + a.height) - (b.width + b.height)
      \* the re-sorts between Shelf passes
      [] s = "passMinEdge"   -> Min(a.width, a.height) - Min(b.width, b.height)
      [] s = "passPerimeter" -> (a.width + a.height) - (b.width + b.height)
      [] s = "passArea"      -> a.width * a.height - b.width * b.height

\* x goes after every element that does not compare greater than it
RECURSIVE InsertSorted(_, _, _)
InsertSorted(s, sorted, x) ==
    IF sorted = <<>> THEN <<x>>
    ELSE IF StrategyFn(s, Head(sorted), x) <= 0
         THEN <<Head(sorted)>> \o InsertSorted(s, Tail(sorted), x)
         ELSE <<x>> \o sorted

RECURSIVE SortFrom(_, _, _)
SortFrom(s, imgs, sorted) ==
    IF imgs = <<>> THEN sorted
    ELSE SortFrom(s, Tail(imgs), InsertSorted(s, sorted, Head(imgs)))

SortImages(s, imgs) == SortFrom(s, imgs, <<>>)

-----------------------------------------------------------------------------
(* MaxRectangles packer *)

isContainedIn(a, b) ==
    /\ a.x >= b.x
    /\ a.y >= b.y
    /\ a.x + a.width <= b.x + b.width
    /\ a.y + a.height <= b.y + b.height

RECURSIVE pruneLoop(_, _, _)
pruneLoop(fr, i, j) ==
    IF i > Len(fr) THEN fr
    ELSE IF j > Len(fr) THEN pruneLoop(fr, i + 1, i + 2)
    ELSE IF isContainedIn(fr[i], fr[j]) THEN pruneLoop(RemoveAt(fr, i), i, i + 1)
    ELSE IF isContainedIn(fr[j], fr[i]) THEN pruneLoop(RemoveAt(fr, j), i, j)
    ELSE pruneLoop(fr, i, j + 1)

pruneFreeRectangles(fr) == pruneLoop(fr, 1, 2)

\* the nodes splitFreeRectangle pushes, and whether it returns true
splitFreeRectangle(freeRect, used) ==
    IF \/ used.x >= freeRect.x + freeRect.width
       \/ used.x + used.width <= freeRect.x
       \/ used.y >= freeRect.y + freeRect.height
       \/ used.y + used.height <= freeRect.y
    THEN [split |-> FALSE, nodes |-> <<>>]
    ELSE
    LET xOverlap == used.x < freeRect.x + freeRect.width
                    /\ used.x + used.width > freeRect.x
        yOverlap == used.y < freeRect.y + freeRect.height
                    /\ used.y + used.height > freeRect.y
        top == IF xOverlap /\ used.y > freeRect.y
                  /\ used.y < freeRect.y + freeRect.height
               THEN <<[x |-> freeRect.x, y |-> freeRect.y,
                       width |-> freeRect.width,
                       height |-> used.y - freeRect.y]>>
               ELSE <<>>
        bottom == IF xOverlap
                     /\ used.y + used.height < freeRect.y + freeRect.height
                  THEN <<[x |-> freeRect.x, y |-> used.y + used.height,
                          width |-> freeRect.width,
                          height |-> freeRect.y + freeRect.height
                                     - (used.y + used.height)]>>
                  ELSE <<>>
        left == IF yOverlap /\ used.x > freeRect.x
                   /\ used.x < freeRect.x + freeRect.width
                THEN <<[x |-> freeRect.x, y |-> freeRect.y,
                        width |-> used.x - freeRect.x,
                        height |-> freeRect.height]>>
                ELSE <<>>
        right == IF yOverlap
                    /\ used.x + used.width < freeRect.x + freeRect.width
                 THEN <<[x |-> used.x + used.width, y |-> freeRect.y,
                         width |-> freeRect.x + freeRect.width
                                   - (used.x + used.width),
                         height |-> freeRect.height]>>
                 ELSE <<>>
    IN [split |-> TRUE, nodes |-> top \o bottom \o left \o right]

RECURSIVE splitLoop(_, _, _)
splitLoop(fr, i, used) ==
    IF i < 1 THEN fr
    ELSE LET r == splitFreeRectangle(fr[i], used)
         IN IF r.split
            THEN splitLoop(RemoveAt(fr \o r.nodes, i), i - 1, used)
            ELSE splitLoop(fr, i - 1, used)

splitFreeRectangles(fr, used) ==
    pruneFreeRectangles(splitLoop(fr, Len(fr), used))

RECURSIVE bssfLoop(_, _, _, _, _)
bssfLoop(fr, k, width, height, best) ==
    IF k > Len(fr) THEN best.node
    ELSE
    LET rect == fr[k]
        leftoverHoriz == Abs(rect.width - width)
        leftoverVert == Abs(rect.height - height)
        shortSideFit == Min(leftoverHoriz, leftoverVert)
        longSideFit == Max(leftoverHoriz, leftoverVert)
    IN IF /\ rect.width >= width
          /\ rect.height >= height
          /\ \/ shortSideFit < best.short
             \/ shortSideFit = best.short /\ longSideFit < best.long
       THEN bssfLoop(fr, k + 1, width, height,
                     [node |-> [x |-> rect.x, y |-> rect.y,
                                width |-> width, height |-> height],
                      short |-> shortSideFit, long |-> longSideFit])
       ELSE bssfLoop(fr, k + 1, width, height, best)

\* a variant that takes the first free rectangle the node fits in
findPositionFirstFit(fr, width, height) ==
    IF \E k \in 1..Len(fr) : fr[k].width >= width /\ fr[k].height >= height
    THEN LET first == CHOOSE k \in 1..Len(fr) :
                          /\ fr[k].width >= width /\ fr[k].height >= height
                          /\ \A j \in 1..(k - 1) :
                                fr[j].width < width \/ fr[j].height < height
         IN [x |-> fr[first].x, y |-> fr[first].y, width |-> width, height |-> height]
    ELSE [x |-> 0, y |-> 0, width |-> 0, height |-> 0]

findPositionForNewNodeBestShortSideFit(fr, width, height) ==
    bssfLoop(fr, 1, width, height,
             [node |-> [x |-> 0, y |-> 0, width |-> 0, height |-> 0],
              short |-> Infinity, long |-> Infinity])

\* maxRight / maxBottom over the frames; bottom in 1/YU pixel
RECURSIVE maxRightOf(_, _, _)
maxRightOf(frames, pad, acc) ==
    IF frames = <<>> THEN acc
    ELSE maxRightOf(Tail(frames), pad,
                    Max(acc, Head(frames).x + Head(frames).width + pad))

RECURSIVE maxBottomOf(_, _, _)
maxBottomOf(frames, pad, acc) ==
    IF frames = <<>> THEN acc
    ELSE maxBottomOf(Tail(frames), pad,
                     Max(acc, Head(frames).y + YU * (Head(frames).height + pad)))

\* a variant that takes the bounds from the frames' origins
usedBoundsOfOrigins(frames, pad) ==
    Layout(frames,
           maxRightOf([i \in 1..Len(frames) |-> [frames[i] EXCEPT !.width = 0]],
                      pad, pad),
           maxBottomOf([i \in 1..Len(frames) |-> [frames[i] EXCEPT !.height = 0]],
                       pad, YU * pad))

usedBounds(frames, pad) ==
    Layout(frames, maxRightOf(frames, pad, pad), maxBottomOf(frames, pad, YU * pad))

\* a variant that records the dimensions of a rotated item unswapped
maxRectsFrameUnswapped(item, bestNode, rotated) ==
    [name |-> item.name, x |-> bestNode.x, y |-> YU * bestNode.y,
     width |-> item.width, height |-> item.height,
     originalWidth |-> item.width, originalHeight |-> item.height,
     rotated |-> rotated]

\* the frame pushed for an item placed at bestNode
maxRectsFrame(item, bestNode, rotated) ==
    [name |-> item.name, x |-> bestNode.x, y |-> YU * bestNode.y,
     width |-> IF rotated THEN item.height ELSE item.width,
     height |-> IF rotated THEN item.width ELSE item.height,
     originalWidth |-> item.width, originalHeight |-> item.height,
     rotated |-> rotated]

\* a variant that reserves the frame without its padding
usedRectangleNoPadding(bestNode, frame, pad) ==
    [x |-> bestNode.x, y |-> bestNode.y,
     width |-> frame.width, height |-> frame.height]

\* the rectangle pushed on usedRectangles for that frame
usedRectangle(bestNode, frame, pad) ==
    [x |-> bestNode.x, y |-> bestNode.y,
     width |-> frame.width + pad, height |-> frame.height + pad]

RECURSIVE maxRectsLoop(_, _, _, _)
maxRectsLoop(imgs, pad, freeRectangles, frames) ==
    IF imgs = <<>> THEN usedBounds(frames, pad)
    ELSE
    LET item == Head(imgs)
        placeAt(bestNode, rotated) ==
            LET frame == maxRectsFrame(item, bestNode, rotated)
            IN IF bestNode.height = 0 THEN null
               ELSE maxRectsLoop(Tail(imgs), pad,
                                 splitFreeRectangles(freeRectangles,
                                     usedRectangle(bestNode, frame, pad)),
                                 Append(frames, frame))
        \* "if (bestNode.height === 0)": try the item rotated
        orRotated(bestNode) ==
            IF bestNode.height = 0
            THEN placeAt(findPositionForNewNodeBestShortSideFit(
                             freeRectangles, item.height + pad, item.width + pad),
                         TRUE)
            ELSE placeAt(bestNode, FALSE)
    IN orRotated(findPositionForNewNodeBestShortSideFit(
                     freeRectangles, item.width + pad, item.height + pad))

maxRectanglesPack(imgs, pad, width) ==
    maxRectsLoop(imgs, pad,
                 <<[x |-> 0, y |-> 0, width |-> width, height |-> WORK_HEIGHT]>>,
                 <<>>)

-----------------------------------------------------------------------------
(* Shelf packer *)

MAX_ATTEMPTS == 3               \* const maxAttempts = 3
HEIGHT_BUCKET == 8              \* Math.round(h / 8) * 8
MERGE_CAP == 48                 \* Math.min(optimalHeight * 0.25, 48)

\* score = -waste * 2 - widthFit * 0.1 + shelfUtilization * 10 + shelf.y * 0.05
\* with shelfUtilization = currentX / maxWidth, multiplied by 20 * maxWidth
shelfScore(shelf, waste, widthFit, width) ==
    200 * shelf.currentX + width * shelf.y - 40 * width * waste - 2 * width * widthFit

\* the for loop over the shelves: best = [shelf index or 0, rotated, score, fit]
RECURSIVE bestShelfLoop(_, _, _, _, _, _)
bestShelfLoop(shelves, k, item, pad, width, best) ==
    IF k > Len(shelves) THEN best
    ELSE
    LET shelf == shelves[k]
        remainingWidth == width - shelf.currentX - pad
        fits1 == item.width <= remainingWidth /\ item.height <= shelf.height
        waste1 == shelf.height - item.height
        score1 == shelfScore(shelf, waste1, remainingWidth - item.width, width)
        best1 == IF fits1 /\ (score1 > best.score
                              \/ (score1 = best.score /\ waste1 < best.fit))
                 THEN [shelf |-> k, rotated |-> FALSE, score |-> score1, fit |-> waste1]
                 ELSE best
        fits2 == item.height <= remainingWidth /\ item.width <= shelf.height
        waste2 == shelf.height - item.width
        score2 == shelfScore(shelf, waste2, remainingWidth - item.height, width)
        best2 == IF fits2 /\ (score2 > best1.score
                              \/ (score2 = best1.score /\ waste2 < best1.fit))
                 THEN [shelf |-> k, rotated |-> TRUE, score |-> score2, fit |-> waste2]
                 ELSE best1
    IN bestShelfLoop(shelves, k + 1, item, pad, width, best2)

findBestShelf(shelves, item, pad, width) ==
    bestShelfLoop(shelves, 1, item, pad, width,
                  [shelf |-> 0, rotated |-> FALSE, score |-> -Infinity, fit |-> Infinity])

\* Math.round(h / 8) * 8
roundedHeight(h) == ((2 * h + HEIGHT_BUCKET) \div (2 * HEIGHT_BUCKET)) * HEIGHT_BUCKET

RECURSIVE MaxOf(_)
MaxOf(s) == IF Len(s) = 1 THEN s[1] ELSE Max(s[1], MaxOf(Tail(s)))

\* the (k+1)-th smallest element of s, k counted from 0
KthSmallest(s, k) ==
    CHOOSE v \in {s[i] : i \in 1..Len(s)} :
        /\ Cardinality({i \in 1..Len(s) : s[i] < v}) <= k
        /\ Cardinality({i \in 1..Len(s) : s[i] <= v}) > k

\* Object.entries(heightCounts).sort((a, b) => b[1] - a[1])[0][0]: the keys are
\* integer-like, so they are listed in ascending order and the sort is stable
mostCommonHeightOf(allHeights) ==
    LET keys == {roundedHeight(allHeights[i]) : i \in 1..Len(allHeights)}
        count(key) == Cardinality({i \in 1..Len(allHeights) :
                                      roundedHeight(allHeights[i]) = key})
    IN CHOOSE key \in keys :
           \A other \in keys :
               \/ count(key) > count(other)
               \/ count(key) = count(other) /\ key <= other

\* the loop over viableHeights: best = [height, score, isString]; the score
\* canFitCount * 100 - testHeight * 0.5 is doubled
RECURSIVE heightLoop(_, _, _, _, _)
heightLoop(cands, k, allImages, placeHeight, best) ==
    IF k > Len(cands) THEN best
    ELSE
    LET testHeight == cands[k].height
        viable == testHeight >= placeHeight /\ testHeight <= placeHeight * 2
        canFitCount == Cardinality({i \in 1..Len(allImages) :
                                       allImages[i].height <= testHeight})
        score == canFitCount * 200 - testHeight
    IN IF viable /\ score > best.score
       THEN heightLoop(cands, k + 1, allImages, placeHeight,
                       [height |-> testHeight, score |-> score,
                        isString |-> cands[k].isString])
       ELSE heightLoop(cands, k + 1, allImages, placeHeight, best)

\* optimalHeight; isString: the value chosen is the key of heightCounts, a string
optimalHeightOf(allImages, placeHeight) ==
    LET allHeights == [i \in 1..Len(allImages) |-> allImages[i].height]
        cands == <<[height |-> placeHeight, isString |-> FALSE],
                   [height |-> mostCommonHeightOf(allHeights), isString |-> TRUE],
                   [height |-> KthSmallest(allHeights, Len(allHeights) \div 2),
                    isString |-> FALSE],
                   [height |-> MaxOf(allHeights), isString |-> FALSE]>>
    IN heightLoop(cands, 1, allImages, placeHeight,
                  [height |-> placeHeight, score |-> -Infinity, isString |-> FALSE])

RECURSIVE Digits(_)
Digits(n) == IF n < 10 THEN 1 ELSE 1 + Digits(n \div 10)

\* the number a + "b" + c reads as, when b is a string
Concat3(a, b, c) == (a * 10 ^ Digits(b) + b) * 10 ^ Digits(c) + c

\* lastShelf.y + lastShelf.height + padding
newShelfY(shelves, pad) ==
    IF shelves = <<>> THEN pad
    ELSE LET lastShelf == shelves[Len(shelves)]
         IN IF lastShelf.heightIsString
            THEN Concat3(lastShelf.y, lastShelf.height, pad)
            ELSE lastShelf.y + lastShelf.height + pad

\* "if (bestShelf)": the item goes on the best existing shelf
placeOnBestShelf(item, pad, st, best) ==
    LET bestShelf == st.shelves[best.shelf]
        placeWidth == IF best.rotated THEN item.height ELSE item.width
        placeHeight == IF best.rotated THEN item.width ELSE item.height
    IN [ok |-> TRUE,
        frames |-> Append(st.frames,
            [name |-> item.name, x |-> bestShelf.currentX, y |-> YU * bestShelf.y,
             width |-> placeWidth, height |-> placeHeight,
             originalWidth |-> item.width, originalHeight |-> item.height,
             rotated |-> best.rotated]),
        shelves |-> [st.shelves EXCEPT ![best.shelf].currentX = @ + placeWidth + pad],
        newImages |-> st.newImages,
        placedThisRound |-> TRUE]

\* "if (!placed)": the item is merged into the last shelf or opens a new shelf;
\* null when the function returns null
placeOnNewShelf(item, pad, width, st) ==
    LET widthOverLimit == item.width + pad > width
        heightOverLimit == item.height + pad > width
        rotated == \/ widthOverLimit /\ ~heightOverLimit
                   \/ /\ ~widthOverLimit /\ ~heightOverLimit
                      /\ item.height * item.width < item.width * item.height
        placeWidth == IF rotated THEN item.height ELSE item.width
        placeHeight == IF rotated THEN item.width ELSE item.height
        n == Len(st.shelves)
        place(newY, optimal) ==
            LET optimalHeight == optimal.height
                lastShelf == st.shelves[n]
                heightDiff == Abs(lastShelf.height - optimalHeight)
                \* heightDiff <= Math.min(optimalHeight * 0.25, 48)
                canMerge == /\ n > 0
                            /\ 4 * heightDiff <= optimalHeight
                            /\ heightDiff <= MERGE_CAP
                            /\ lastShelf.currentX + pad + placeWidth <= width
                mergedHeight == Max(lastShelf.height, optimalHeight)
                \* (mergedHeight - (lastShelf.height - heightDiff)) / 2, read
                \* after lastShelf.height = mergedHeight; in 1/YU pixel
                yOffset == mergedHeight - (mergedHeight - heightDiff)
                placeH == IF rotated THEN item.width ELSE item.height
                placeW == IF rotated THEN item.height ELSE item.width
            IN
            IF newY > WORK_HEIGHT THEN null
            ELSE IF placeWidth + pad > width THEN null
            ELSE IF canMerge THEN
                [ok |-> TRUE,
                 frames |-> Append(
                    [i \in 1..Len(st.frames) |->
                        IF st.frames[i].y = YU * lastShelf.y
                        THEN [st.frames[i] EXCEPT !.y = @ + yOffset]
                        ELSE st.frames[i]],
                    [name |-> item.name, x |-> lastShelf.currentX,
                     y |-> YU * lastShelf.y + (mergedHeight - placeH),
                     width |-> placeW, height |-> placeH,
                     originalWidth |-> item.width, originalHeight |-> item.height,
                     rotated |-> rotated]),
                 shelves |-> [st.shelves EXCEPT ![n].height = mergedHeight,
                                                ![n].heightIsString = FALSE,
                                                ![n].currentX = @ + placeW + pad],
                 newImages |-> st.newImages,
                 placedThisRound |-> TRUE]
            ELSE
                [ok |-> TRUE,
                 frames |-> Append(st.frames,
                    [name |-> item.name, x |-> pad,
                     y |-> YU * newY + (optimalHeight - placeHeight),
                     width |-> placeWidth, height |-> placeHeight,
                     originalWidth |-> item.width, originalHeight |-> item.height,
                     rotated |-> rotated]),
                 shelves |-> Append(st.shelves,
                    [y |-> newY, height |-> optimalHeight,
                     heightIsString |-> optimal.isString,
                     currentX |-> pad + placeWidth + pad, maxWidth |-> width]),
                 newImages |-> st.newImages,
                 placedThisRound |-> TRUE]
    IN place(newShelfY(st.shelves, pad),
             optimalHeightOf(Append(st.newImages, item), placeHeight))

\* a variant that leaves an oversized item for the next pass
shelfPlaceItemDefer(item, pad, width, st) ==
    LET onShelf(best) ==
            IF best.shelf # 0 THEN placeOnBestShelf(item, pad, st, best)
            ELSE placeOnNewShelf(item, pad, width, st)
    IN IF item.width > width /\ item.height > width
       THEN [st EXCEPT !.newImages = Append(@, item)]
       ELSE onShelf(findBestShelf(st.shelves, item, pad, width))

\* the body of "for (const item of images)": st = [frames, shelves, newImages,
\* placedThisRound]; null when the function returns null.  The closing
\* "if (!placed) newImages.push(item)" has nothing to push: both branches place
\* the item or return null.
shelfPlaceItem(item, pad, width, st) ==
    LET onShelf(best) ==
            IF best.shelf # 0 THEN placeOnBestShelf(item, pad, st, best)
            ELSE placeOnNewShelf(item, pad, width, st)
    IN IF item.width > width /\ item.height > width THEN null
       ELSE onShelf(findBestShelf(st.shelves, item, pad, width))

\* one pass of the while loop over the images
RECURSIVE shelfPass(_, _, _, _)
shelfPass(imgs, pad, width, st) ==
    IF imgs = <<>> THEN st
    ELSE LET rest(next) ==
                 IF ~next.ok THEN null ELSE shelfPass(Tail(imgs), pad, width, next)
         IN rest(shelfPlaceItem(Head(imgs), pad, width, st))

\* the re-sort that follows pass number attempt
resortKey(attempt) ==
    IF attempt = 1 THEN "passMinEdge"
    ELSE IF attempt = 2 THEN "passPerimeter" ELSE "passArea"

\* a variant whose later passes go over every item again
RECURSIVE shelfRoundsRepeat(_, _, _, _, _, _)
shelfRoundsRepeat(imgs, attempt, pad, width, frames, shelves) ==
    IF imgs = <<>> \/ attempt >= MAX_ATTEMPTS
    THEN [ok |-> TRUE, frames |-> frames, passes |-> attempt, left |-> <<>>]
    ELSE
    LET after(st) ==
            IF ~st.ok THEN null
            ELSE IF ~st.placedThisRound
            THEN [ok |-> TRUE, frames |-> st.frames, passes |-> attempt + 1,
                  left |-> st.newImages]
            ELSE shelfRoundsRepeat(imgs, attempt + 1, pad, width, st.frames,
                                   st.shelves)
    IN after(shelfPass(imgs, pad, width,
                       [ok |-> TRUE, frames |-> frames, shelves |-> shelves,
                        newImages |-> <<>>, placedThisRound |-> FALSE]))

\* the while loop; passes counts the passes made
RECURSIVE shelfRounds(_, _, _, _, _, _)
shelfRounds(imgs, attempt, pad, width, frames, shelves) ==
    IF imgs = <<>> \/ attempt >= MAX_ATTEMPTS
    THEN [ok |-> TRUE, frames |-> frames, passes |-> attempt, left |-> imgs]
    ELSE
    LET after(st) ==
            IF ~st.ok THEN null
            ELSE IF ~st.placedThisRound
            THEN [ok |-> TRUE, frames |-> st.frames, passes |-> attempt + 1,
                  left |-> st.newImages]
            ELSE shelfRounds(
                     IF st.newImages # <<>> /\ attempt + 1 < MAX_ATTEMPTS
                     THEN SortImages(resortKey(attempt + 1), st.newImages)
                     ELSE st.newImages,
                     attempt + 1, pad, width, st.frames, st.shelves)
    IN after(shelfPass(imgs, pad, width,
                       [ok |-> TRUE, frames |-> frames, shelves |-> shelves,
                        newImages |-> <<>>, placedThisRound |-> FALSE]))

packImagesInternal(sortedImages, pad, width) ==
    LET bounds(run) == IF ~run.ok THEN null ELSE usedBounds(run.frames, pad)
    IN bounds(shelfRounds(sortedImages, 0, pad, width, <<>>, <<>>))

-----------------------------------------------------------------------------
(* The width x sort-order search of both packers *)

\* Math.ceil(Math.sqrt(totalArea * 1.3)): the least n with n * n >= 1.3 * totalArea
RECURSIVE ceilSqrtSearch(_, _, _)
ceilSqrtSearch(lo, hi, totalArea) ==
    IF lo >= hi THEN lo
    ELSE LET mid == (lo + hi) \div 2
         IN IF 10 * mid * mid >= 13 * totalArea
            THEN ceilSqrtSearch(lo, mid, totalArea)
            ELSE ceilSqrtSearch(mid + 1, hi, totalArea)

estimatedWidthOf(imgs) == ceilSqrtSearch(0, 2 * WORK_HEIGHT, SumArea(imgs))

alignedWidthOf(imgs) == ((estimatedWidthOf(imgs) + ALIGN - 1) \div ALIGN) * ALIGN

\* for (let pow = 11; pow >= 6; pow--) if (2 ** pow <= effectiveMaxWidth) push
RECURSIVE pow2Widths(_, _)
pow2Widths(pow, effectiveMaxWidth) ==
    IF pow < MIN_POW THEN <<>>
    ELSE (IF Pow2(pow) <= effectiveMaxWidth THEN <<Pow2(pow)>> ELSE <<>>)
         \o pow2Widths(pow - 1, effectiveMaxWidth)

InSeq(x, s) == \E i \in 1..Len(s) : s[i] = x

\* the loop over adjacentWidths
RECURSIVE pushAdjacent(_, _, _)
pushAdjacent(widthOptions, adjacent, effectiveMaxWidth) ==
    IF adjacent = <<>> THEN widthOptions
    ELSE LET adjWidth == Head(adjacent)
         IN pushAdjacent(
                IF /\ adjWidth >= MIN_RAW_WIDTH
                   /\ adjWidth <= effectiveMaxWidth
                   /\ ~InSeq(adjWidth, widthOptions)
                THEN Append(widthOptions, adjWidth) ELSE widthOptions,
                Tail(adjacent), effectiveMaxWidth)

adjacentWidths(alignedWidth) ==
    <<alignedWidth - 48, alignedWidth - 16, alignedWidth + 16, alignedWidth + 48>>

\* (a, b) => b - a
descendingCmp(a, b, est) == b - a

\* powers of two first, the larger first; then the widths nearest the estimate
shelfWidthCmp(a, b, est) ==
    IF IsPow2(a) /\ IsPow2(b) THEN b - a
    ELSE IF ~IsPow2(a) /\ ~IsPow2(b) THEN Abs(a - est) - Abs(b - est)
    ELSE IF IsPow2(a) THEN -1 ELSE 1

\* the comparator handed to widthOptions.sort by the named search
widthCmp(algorithm, a, b, est) ==
    IF algorithm = "maxRectangles" THEN descendingCmp(a, b, est)
    ELSE shelfWidthCmp(a, b, est)

\* widthOptions.sort(cmp): a stable insertion by the sign of cmp(a, b)
RECURSIVE insertWidth(_, _, _, _)
insertWidth(sorted, w, algorithm, est) ==
    IF sorted = <<>> THEN <<w>>
    ELSE IF widthCmp(algorithm, Head(sorted), w, est) <= 0
         THEN <<Head(sorted)>> \o insertWidth(Tail(sorted), w, algorithm, est)
         ELSE <<w>> \o sorted

RECURSIVE sortWidths(_, _, _, _)
sortWidths(ws, sorted, algorithm, est) ==
    IF ws = <<>> THEN sorted
    ELSE sortWidths(Tail(ws), insertWidth(sorted, Head(ws), algorithm, est),
                    algorithm, est)

maxRectsWidthOptions(imgs, maxW, pow2) ==
    LET effectiveMaxWidth == Min(maxW, MAX_ATLAS_SIZE)
        alignedWidth == alignedWidthOf(imgs)
        raw == IF alignedWidth <= effectiveMaxWidth /\ alignedWidth >= MIN_RAW_WIDTH
               THEN pushAdjacent(<<alignedWidth>>, adjacentWidths(alignedWidth),
                                 effectiveMaxWidth)
               ELSE <<>>
        widthOptions == IF pow2 THEN pow2Widths(MAX_POW, effectiveMaxWidth)
                        ELSE IF raw = <<>> THEN <<effectiveMaxWidth>> ELSE raw
    IN sortWidths(widthOptions, <<>>, "maxRectangles", 0)

shelfWidthOptions(imgs, maxW, pow2) ==
    LET effectiveMaxWidth == Min(maxW, MAX_ATLAS_SIZE)
        powers == IF pow2 THEN pow2Widths(MAX_POW, effectiveMaxWidth) ELSE <<>>
        estimatedWidth == estimatedWidthOf(imgs)
        alignedWidth == alignedWidthOf(imgs)
        estimated ==
            IF estimatedWidth <= effectiveMaxWidth /\ estimatedWidth >= MIN_RAW_WIDTH
            THEN pushAdjacent(
                     IF InSeq(alignedWidth, powers) THEN powers
                     ELSE Append(powers, alignedWidth),
                     adjacentWidths(alignedWidth), effectiveMaxWidth)
            ELSE powers
        widthOptions ==
            IF estimated = <<>>
            THEN <<IF pow2 THEN FALLBACK_WIDTH ELSE effectiveMaxWidth>>
            ELSE estimated
    IN sortWidths(widthOptions, <<>>, "shelf", estimatedWidth)

\* efficiency = imgUsedArea / area * 100 as the fraction used / area; 0 / 0 is NaN
\* and compares false with everything
efficiencyGreater(used, area, best) ==
    /\ area # 0
    /\ IF used = best.used THEN used > 0 /\ area < best.area
       ELSE used * best.area > best.used * area

efficiencyEqual(used, area, best) ==
    /\ area # 0
    /\ IF used = best.used THEN used = 0 \/ area = best.area
       ELSE used * best.area = best.used * area

\* a variant that keeps the first layout it accepts
considerResultFirst(best, packed, imgs, pow2) ==
    IF ~packed.ok \/ best.bestResult.ok THEN best
    ELSE
    LET finalWidth == IF pow2 THEN nextPowerOf2(packed.width, 1) ELSE packed.width
        finalHeight == IF pow2 THEN YU * nextPowerOf2(packed.height, YU)
                       ELSE packed.height
    IN IF pow2 /\ (finalWidth > MAX_ATLAS_SIZE \/ finalHeight > YU * MAX_ATLAS_SIZE)
       THEN best
       ELSE [bestResult |-> Layout(packed.frames, finalWidth, finalHeight),
             bestArea |-> finalWidth * finalHeight,
             bestEfficiency |-> [used |-> YU * SumArea(imgs),
                                 area |-> finalWidth * finalHeight]]

\* the body of the inner loop: best = [bestResult, bestArea, bestEfficiency]
\* with bestEfficiency kept as the fraction used / area
considerResult(best, packed, imgs, pow2) ==
    IF ~packed.ok THEN best
    ELSE
    LET finalWidth == IF pow2 THEN nextPowerOf2(packed.width, 1) ELSE packed.width
        finalHeight == IF pow2 THEN YU * nextPowerOf2(packed.height, YU)
                       ELSE packed.height
        area == finalWidth * finalHeight
        imgUsedArea == YU * SumArea(imgs)
    IN IF pow2 /\ (finalWidth > MAX_ATLAS_SIZE \/ finalHeight > YU * MAX_ATLAS_SIZE)
       THEN best
       ELSE IF \/ efficiencyGreater(imgUsedArea, area, best.bestEfficiency)
               \/ /\ efficiencyEqual(imgUsedArea, area, best.bestEfficiency)
                  /\ area < best.bestArea
       THEN [bestResult |-> Layout(packed.frames, finalWidth, finalHeight),
             bestArea |-> area,
             bestEfficiency |-> [used |-> imgUsedArea, area |-> area]]
       ELSE best

noBest == [bestResult |-> null, bestArea |-> Infinity,
           bestEfficiency |-> [used |-> 0, area |-> 1]]

\* one packer attempt of the named algorithm
packWith(algorithm, sortedImages, pad, width) ==
    IF algorithm = "maxRectangles" THEN maxRectanglesPack(sortedImages, pad, width)
    ELSE packImagesInternal(sortedImages, pad, width)

\* the inner for loop, over the sort strategies at one width: acc = [best,
\* tried], best as in considerResult, tried the log of what the packer
\* returned to each iteration so far
RECURSIVE strategyLoop(_, _, _, _, _, _, _, _)
strategyLoop(algorithm, strategies, k, width, imgs, pad, pow2, acc) ==
    IF k > Len(strategies) THEN acc
    ELSE LET strategy == strategies[k]
             step(packed) ==
                 [best |-> considerResult(acc.best, packed, imgs, pow2),
                  tried |-> Append(acc.tried,
                                   [width |-> width, strategy |-> strategy,
                                    packed |-> packed])]
             \* (the test is always true: it has this iteration evaluated
             \* before the next one, as the loop does)
             rest(next) ==
                 IF Len(next.tried) > 0 /\ next.best.bestArea >= 0
                 THEN strategyLoop(algorithm, strategies, k + 1, width, imgs, pad,
                                   pow2, next)
                 ELSE acc
         IN rest(step(packWith(algorithm, SortImages(strategy, imgs), pad, width)))

\* the outer for loop, over the width options
RECURSIVE widthLoop(_, _, _, _, _, _, _, _)
widthLoop(algorithm, strategies, widthOptions, w, imgs, pad, pow2, acc) ==
    IF w > Len(widthOptions) THEN acc
    ELSE LET rest(next) ==
                 IF Len(next.tried) > 0 /\ next.best.bestArea >= 0
                 THEN widthLoop(algorithm, strategies, widthOptions, w + 1, imgs,
                                pad, pow2, next)
                 ELSE acc
         IN rest(strategyLoop(algorithm, strategies, 1, widthOptions[w], imgs, pad,
                              pow2, acc))

\* the search: the best layout and the log of the attempts
searchLoop(algorithm, strategies, widthOptions, imgs, pad, pow2) ==
    LET outcome(done) == [bestResult |-> done.best.bestResult,
                          attempts |-> done.tried]
    IN outcome(widthLoop(algorithm, strategies, widthOptions, 1, imgs, pad, pow2,
                         [best |-> noBest, tried |-> <<>>]))

searchMaxRectangles(imgs, pad, maxW, pow2) ==
    searchLoop("maxRectangles", MaxRectsStrategies,
               maxRectsWidthOptions(imgs, maxW, pow2), imgs, pad, pow2)

searchShelf(imgs, pad, maxW, pow2) ==
    searchLoop("shelf", ShelfStrategies,
               shelfWidthOptions(imgs, maxW, pow2), imgs, pad, pow2)

packImagesWithMaxRectangles(imgs, pad, maxW, pow2) ==
    searchMaxRectangles(imgs, pad, maxW, pow2).bestResult

packImages(imgs, pad, maxW, pow2) == searchShelf(imgs, pad, maxW, pow2).bestResult

-----------------------------------------------------------------------------
(* ImageGrouper *)

\* GROUPING_CONFIG.SIZE_THRESHOLDS
SIZE_THRESHOLDS ==
    <<[maxArea |-> 25600, name |-> "small"],
      [maxArea |-> 102400, name |-> "medium"],
      [maxArea |-> 409600, name |-> "large"],
      [maxArea |-> Infinity, name |-> "xlarge"]>>

\* GROUPING_CONFIG.ASPECT_RATIO_THRESHOLDS, maxRatio as the fraction num / den
ASPECT_RATIO_THRESHOLDS ==
    <<[num |-> 1, den |-> 2, name |-> "tall"],
      [num |-> 3, den |-> 2, name |-> "normal"],
      [num |-> Infinity, den |-> 1, name |-> "wide"]>>

MAX_IMAGES_PER_GROUP == 50
MAX_AREA_PER_GROUP == 2048 * 1024
SMALL_GROUP == 5                \* group.items.length < 5

GROUPING_CONFIG ==
    [SIZE_THRESHOLDS |-> SIZE_THRESHOLDS,
     ASPECT_RATIO_THRESHOLDS |-> ASPECT_RATIO_THRESHOLDS,
     MAX_IMAGES_PER_GROUP |-> MAX_IMAGES_PER_GROUP,
     MAX_AREA_PER_GROUP |-> MAX_AREA_PER_GROUP]

RECURSIVE sizeCategoryFrom(_, _, _)
sizeCategoryFrom(config, k, area) ==
    IF k > Len(config.SIZE_THRESHOLDS) THEN "xlarge"
    ELSE IF area < config.SIZE_THRESHOLDS[k].maxArea
         THEN config.SIZE_THRESHOLDS[k].name
         ELSE sizeCategoryFrom(config, k + 1, area)

getSizeCategory(config, area) == sizeCategoryFrom(config, 1, area)

\* ratio < maxRatio for ratio = lo / hi; 0 / 0 is NaN and below nothing
ratioBelow(lo, hi, threshold) ==
    /\ hi # 0
    /\ \/ threshold.num = Infinity
       \/ lo * threshold.den < threshold.num * hi

RECURSIVE aspectCategoryFrom(_, _, _, _)
aspectCategoryFrom(config, k, lo, hi) ==
    IF k > Len(config.ASPECT_RATIO_THRESHOLDS) THEN "wide"
    ELSE IF ratioBelow(lo, hi, config.ASPECT_RATIO_THRESHOLDS[k])
         THEN config.ASPECT_RATIO_THRESHOLDS[k].name
         ELSE aspectCategoryFrom(config, k + 1, lo, hi)

getAspectRatioCategory(config, width, height) ==
    aspectCategoryFrom(config, 1, Min(width, height), Max(width, height))

getStrategyForSize(sizeName) ==
    IF sizeName = "small" THEN "maxEdge"
    ELSE IF sizeName = "medium" THEN "perimeter"
    ELSE IF sizeName = "large" THEN "area"
    ELSE IF sizeName = "xlarge" THEN "maxEdge"
    ELSE "area"

mergeStrategies(strategy1, strategy2) ==
    IF strategy1 = strategy2 THEN strategy1 ELSE "area"

\* the elements of a set of numbers in ascending order
RECURSIVE Ascending(_)
Ascending(S) ==
    IF S = {} THEN <<>>
    ELSE LET least == CHOOSE x \in S : \A y \in S : x <= y
         IN <<least>> \o Ascending(S \ {least})

\* Object.entries of an object filled in the order of keys: the positions at
\* which a key occurs for the first time
firstOccurrences(keys) ==
    Ascending({i \in 1..Len(keys) : \A j \in 1..(i - 1) : keys[j] # keys[i]})

groupBySize(config, imgs) ==
    LET keys == [i \in 1..Len(imgs) |->
                    getSizeCategory(config, imgs[i].width * imgs[i].height)]
        first == firstOccurrences(keys)
    IN [g \in 1..Len(first) |->
           LET name == keys[first[g]]
           IN [name |-> name,
               items |-> SelectSeq(imgs,
                             LAMBDA img : getSizeCategory(config,
                                              img.width * img.height) = name),
               strategy |-> getStrategyForSize(name)]]

\* the groups one size group is refined into
refineGroup(config, group) ==
    LET keys == [i \in 1..Len(group.items) |->
                    getAspectRatioCategory(config, group.items[i].width,
                                           group.items[i].height)]
        first == firstOccurrences(keys)
    IN [g \in 1..Len(first) |->
           LET aspectCategory == keys[first[g]]
           IN [name |-> group.name \o "_" \o aspectCategory,
               items |-> SelectSeq(group.items,
                             LAMBDA img : getAspectRatioCategory(config, img.width,
                                              img.height) = aspectCategory),
               strategy |-> group.strategy]]

RECURSIVE refineGroupsByAspectRatio(_, _)
refineGroupsByAspectRatio(config, sizeGroups) ==
    IF sizeGroups = <<>> THEN <<>>
    ELSE refineGroup(config, Head(sizeGroups))
         \o refineGroupsByAspectRatio(config, Tail(sizeGroups))

\* while (smallGroups.length > 1): the first two small groups become one
RECURSIVE mergePairs(_, _)
mergePairs(merged, smallGroups) ==
    IF Len(smallGroups) <= 1
    THEN [mergedGroups |-> merged, smallGroups |-> smallGroups]
    ELSE LET group1 == smallGroups[1]
             group2 == smallGroups[2]
         IN mergePairs(
                Append(merged,
                       [name |-> group1.name \o "+" \o group2.name,
                        items |-> group1.items \o group2.items,
                        strategy |-> mergeStrategies(group1.strategy,
                                                     group2.strategy)]),
                Tail(Tail(smallGroups)))

\* a variant that forgets the small group left over by the pairing
mergeSmallGroupsDropLeftover(groupList) ==
    mergePairs(SelectSeq(groupList, LAMBDA group : Len(group.items) >= SMALL_GROUP),
               SelectSeq(groupList, LAMBDA group : Len(group.items) < SMALL_GROUP)
              ).mergedGroups

mergeSmallGroups(groupList) ==
    LET large == SelectSeq(groupList, LAMBDA group : Len(group.items) >= SMALL_GROUP)
        small == SelectSeq(groupList, LAMBDA group : Len(group.items) < SMALL_GROUP)
        paired == mergePairs(large, small)
    IN IF Len(paired.smallGroups) > 0
       THEN IF Len(paired.mergedGroups) > 0
            THEN [paired.mergedGroups EXCEPT
                     ![1].items = @ \o paired.smallGroups[1].items]
            ELSE Append(paired.mergedGroups, paired.smallGroups[1])
       ELSE paired.mergedGroups

\* the for loop of splitByArea: done = the groups closed so far
RECURSIVE splitByAreaLoop(_, _, _, _, _)
splitByAreaLoop(items, maxArea, done, currentGroup, currentArea) ==
    IF items = <<>>
    THEN IF Len(currentGroup) > 0
         THEN Append(done, [name |-> "split_group", items |-> currentGroup,
                            strategy |-> "area"])
         ELSE done
    ELSE LET item == Head(items)
             itemArea == item.width * item.height
         IN IF currentArea + itemArea > maxArea /\ Len(currentGroup) > 0
            THEN splitByAreaLoop(Tail(items), maxArea,
                                 Append(done, [name |-> "split_group",
                                               items |-> currentGroup,
                                               strategy |-> "area"]),
                                 <<item>>, itemArea)
            ELSE splitByAreaLoop(Tail(items), maxArea, done,
                                 Append(currentGroup, item), currentArea + itemArea)

\* a variant that keeps an over-area batch whole
splitByAreaWhole(items, maxArea) ==
    <<[name |-> "split_group", items |-> items, strategy |-> "area"]>>

splitByArea(items, maxArea) == splitByAreaLoop(items, maxArea, <<>>, <<>>, 0)

\* the while loop of limitGroupSize over one group
RECURSIVE limitGroup(_, _, _)
limitGroup(config, group, remainingItems) ==
    IF remainingItems = <<>> THEN <<>>
    ELSE LET cut == Min(Len(remainingItems), config.MAX_IMAGES_PER_GROUP)
             batchItems == SubSeq(remainingItems, 1, cut)
             rest == SubSeq(remainingItems, cut + 1, Len(remainingItems))
             currentArea == SumArea(batchItems)
         IN (IF currentArea > config.MAX_AREA_PER_GROUP
             THEN splitByArea(batchItems, config.MAX_AREA_PER_GROUP)
             ELSE <<[name |-> group.name, items |-> batchItems,
                     strategy |-> group.strategy]>>)
            \o limitGroup(config, group, rest)

RECURSIVE limitGroupSize(_, _)
limitGroupSize(config, groupList) ==
    IF groupList = <<>> THEN <<>>
    ELSE limitGroup(config, Head(groupList), Head(groupList).items)
         \o limitGroupSize(config, Tail(groupList))

\* the groups after the merge step of groupImages
mergedGroupsOf(config, imgs) ==
    IF Len(imgs) = 0 THEN <<>>
    ELSE mergeSmallGroups(refineGroupsByAspectRatio(config, groupBySize(config, imgs)))

groupImages(config, imgs) ==
    IF Len(imgs) = 0 THEN <<>>
    ELSE limitGroupSize(config, mergedGroupsOf(config, imgs))

-----------------------------------------------------------------------------
(* MultiAtlasPacker *)

DEFAULT_MAX_WIDTH == 2048               \* options.maxWidth || 2048
DEFAULT_PADDING == 2                    \* options.padding || 2
DEFAULT_MAX_IMAGES_PER_ATLAS == 100     \* options.maxImagesPerAtlas || 100

\* option || fallback for a numeric option: 0 and a missing option, both
\* written 0 here, give the fallback
orDefault(option, fallback) == IF option = 0 THEN fallback ELSE option

\* packSingleAtlas on a packer whose fields are the arguments
packSingleAtlas(algorithm, imgs, pad, maxW, pow2) ==
    IF algorithm = "maxRectangles"
    THEN packImagesWithMaxRectangles(imgs, pad, maxW, pow2)
    ELSE packImages(imgs, pad, maxW, pow2)

\* "return result ? [result] : []"
atlasList(packed) == IF packed.ok THEN <<packed>> ELSE <<>>

\* "for (const group of groups)": the atlases of the groups that packed
RECURSIVE packGroups(_, _, _, _, _)
packGroups(groupList, algorithm, pad, maxW, pow2) ==
    IF groupList = <<>> THEN <<>>
    ELSE LET group == Head(groupList)
             named(packed) ==
                 IF packed.ok THEN <<packed @@ [groupName |-> group.name]>>
                 ELSE <<>>
         IN named(packSingleAtlas(algorithm, group.items, pad, maxW, pow2))
            \o packGroups(Tail(groupList), algorithm, pad, maxW, pow2)

\* MultiAtlasPacker.pack on a packer whose fields are the arguments
multiAtlasPack(imgs, algorithm, pad, maxW, pow2, imagesPerAtlas) ==
    IF Len(imgs) = 0 THEN <<>>
    ELSE IF Len(imgs) <= imagesPerAtlas
    THEN atlasList(packSingleAtlas(algorithm, imgs, pad, maxW, pow2))
    ELSE packGroups(groupImages(GROUPING_CONFIG, imgs), algorithm, pad, maxW, pow2)

-----------------------------------------------------------------------------
(* SmartAlgorithmSelector: state and recordResult *)
(*                                                                         *)
(* Doubles are modelled as exact fractions [num, den]; den = 0 stands for  *)
(* NaN (0 / 0), which compares false with everything.  Efficiencies are    *)
(* whole percents.                                                         *)

MAX_HISTORY_SIZE == 50          \* this.maxHistorySize = 50
MAX_EFFICIENCIES == 50          \* efficiencies.length > 50
TREND_MIN_HISTORY == 5          \* this.history.length < 5
TREND_WINDOW == 20              \* this.history.slice(-20)
TREND_EFFICIENCY_MARGIN == 5    \* avgEfficiency + 5
STATS_EFFICIENCY_MARGIN == 3    \* shelfAvgEff + 3
CONFIDENCE_SCALE == 15          \* maxScore / 15

Frac(n, d) == [num |-> n, den |-> d]

RECURSIVE GCD(_, _)
GCD(a, b) == IF b = 0 THEN a ELSE GCD(b, a % b)

\* the fraction n / d in lowest terms (d > 0)
Reduced(n, d) == LET g == GCD(n, d) IN Frac(n \div g, d \div g)

\* a > b + c on doubles; false when a or b is NaN
FracGreaterBy(a, b, c) ==
    /\ a.den > 0
    /\ b.den > 0
    /\ a.num * b.den * c.den > (b.num * c.den + c.num * b.den) * a.den

FracGreater(a, b) == FracGreaterBy(a, b, Frac(0, 1))

RECURSIVE SumFirst(_, _)
SumFirst(s, n) == IF n = 0 THEN 0 ELSE s[n] + SumFirst(s, n - 1)

SumSeq(s) == SumFirst(s, Len(s))

\* the statistics the constructor sets
constructorStatistics ==
    [a \in {"maxRectangles", "shelf"} |->
        [usage |-> 0, successRate |-> Frac(0, 1), efficiencies |-> <<>>,
         avgEfficiency |-> Frac(0, 1)]]

\* the statistics resetStatistics sets: no efficiencies, no avgEfficiency
resetStatistics ==
    [a \in {"maxRectangles", "shelf"} |-> [usage |-> 0, successRate |-> Frac(0, 1)]]

\* efficiencies.push(efficiency), shift() beyond 50 values, and the new mean
pushEfficiency(stat, efficiency) ==
    LET pushed == Append(stat.efficiencies, efficiency)
        kept == IF Len(pushed) > MAX_EFFICIENCIES THEN Tail(pushed) ELSE pushed
    IN [stat EXCEPT !.efficiencies = kept,
                    !.avgEfficiency = Frac(SumSeq(kept), Len(kept))]

\* (currentSuccessRate * (totalUsage - 1) + (success ? 1 : 0)) / totalUsage
updateSuccessRate(stat, success) ==
    LET rate == stat.successRate
        gained == IF success THEN rate.den ELSE 0
    IN [stat EXCEPT !.successRate =
            Reduced(rate.num * (stat.usage - 1) + gained, rate.den * stat.usage)]

\* a variant that drops the newest record when the history is full
recordHistoryDropNewest(hist, algorithm, success, efficiency, timestamp) ==
    LET pushed == Append(hist, [algorithm |-> algorithm, success |-> success,
                                efficiency |-> efficiency, timestamp |-> timestamp])
    IN IF Len(pushed) > MAX_HISTORY_SIZE
       THEN SubSeq(pushed, 1, Len(pushed) - 1)
       ELSE pushed

\* recordHistory: push the record, shift() beyond maxHistorySize
recordHistory(hist, algorithm, success, efficiency, timestamp) ==
    LET pushed == Append(hist, [algorithm |-> algorithm, success |-> success,
                                efficiency |-> efficiency, timestamp |-> timestamp])
    IN IF Len(pushed) > MAX_HISTORY_SIZE THEN Tail(pushed) ELSE pushed

\* recordResult on a selector with statistics stats and history hist; threw:
\* efficiencies is undefined after resetStatistics, so push throws a
\* TypeError after usage++ and before anything else is updated
recordResult(stats, hist, algorithm, success, efficiency, timestamp) ==
    IF algorithm \notin DOMAIN stats
    THEN [statistics |-> stats, history |-> hist, threw |-> FALSE]
    ELSE LET used == [stats[algorithm] EXCEPT !.usage = @ + 1]
             pushes == success /\ efficiency > 0
         IN IF pushes /\ "efficiencies" \notin DOMAIN used
            THEN [statistics |-> [stats EXCEPT ![algorithm] = used],
                  history |-> hist, threw |-> TRUE]
            ELSE LET measured == IF pushes THEN pushEfficiency(used, efficiency)
                                 ELSE used
                 IN [statistics |->
                         [stats EXCEPT ![algorithm] = updateSuccessRate(measured, success)],
                     history |->
                         recordHistory(hist, algorithm, success, efficiency, timestamp),
                     threw |-> FALSE]

-----------------------------------------------------------------------------
(* SmartAlgorithmSelector: getPerformanceTrend *)

\* a variant that takes the records of the last 20 clock ticks
recentHistoryByTime(hist) ==
    SelectSeq(hist, LAMBDA r : r.timestamp > hist[Len(hist)].timestamp - TREND_WINDOW)

\* this.history.slice(-20)
recentHistory(hist) == SubSeq(hist, Max(1, Len(hist) - TREND_WINDOW + 1), Len(hist))

\* trends[algorithm] over the recent records
trendOf(recent, algorithm) ==
    LET mine == SelectSeq(recent, LAMBDA r : r.algorithm = algorithm)
        succeeded == SelectSeq(mine, LAMBDA r : r.success)
        measured == SelectSeq(mine, LAMBDA r : r.efficiency > 0)
    IN [recent |-> Len(mine),
        successRate |-> IF Len(mine) > 0 THEN Frac(Len(succeeded), Len(mine))
                        ELSE Frac(0, 1),
        avgEfficiency |->
            IF Len(mine) > 0
            THEN Frac(SumSeq([i \in 1..Len(measured) |-> measured[i].efficiency]),
                      Len(measured))
            ELSE Frac(0, 1)]

\* the recommendation of getPerformanceTrend; "null": the method returns null
getPerformanceTrend(hist) ==
    IF Len(hist) < TREND_MIN_HISTORY THEN "null"
    ELSE LET maxRectangles == trendOf(recentHistory(hist), "maxRectangles")
             shelf == trendOf(recentHistory(hist), "shelf")
             margin == Frac(TREND_EFFICIENCY_MARGIN, 1)
             tenth == Frac(1, 10)
         IN IF FracGreaterBy(maxRectangles.avgEfficiency, shelf.avgEfficiency, margin)
            THEN "maxRectangles"
            ELSE IF FracGreaterBy(shelf.avgEfficiency, maxRectangles.avgEfficiency, margin)
            THEN "shelf"
            ELSE IF FracGreaterBy(maxRectangles.successRate, shelf.successRate, tenth)
            THEN "maxRectangles"
            ELSE IF FracGreaterBy(shelf.successRate, maxRectangles.successRate, tenth)
            THEN "shelf"
            ELSE "auto"

-----------------------------------------------------------------------------
(* SmartAlgorithmSelector: analyzeImageFeatures *)
(*                                                                         *)
(* With n items, SW and SH the sums of the widths and heights and SW2 and  *)
(* SH2 the sums of their squares:                                          *)
(*   avgSize = (SW + SH) / n                                               *)
(*   totalVariance = (n SW2 - SW^2 + n SH2 - SH^2) / n^2                   *)
(* and every comparison of the code is cross-multiplied.                   *)

ATLAS_AREA == 2048 * 2048       \* totalAtlasArea

areasOf(imgs) == [i \in 1..Len(imgs) |-> imgs[i].width * imgs[i].height]

\* n^2 * (varianceWidth + varianceHeight)
scaledTotalVariance(imgs) ==
    LET n == Len(imgs)
        sw == SumSeq([i \in 1..n |-> imgs[i].width])
        sh == SumSeq([i \in 1..n |-> imgs[i].height])
        sw2 == SumSeq([i \in 1..n |-> imgs[i].width * imgs[i].width])
        sh2 == SumSeq([i \in 1..n |-> imgs[i].height * imgs[i].height])
    IN n * sw2 - sw * sw + n * sh2 - sh * sh

\* n * avgSize = n * (avgWidth + avgHeight)
scaledAvgSize(imgs) ==
    SumSeq([i \in 1..Len(imgs) |-> imgs[i].width + imgs[i].height])

\* features.complexity: totalVariance < avgSize * 0.1, < avgSize * 0.3
complexityOf(count, totalVariance, avgSize) ==
    IF 10 * totalVariance < count * avgSize THEN "simple"
    ELSE IF 10 * totalVariance < 3 * count * avgSize THEN "moderate"
    ELSE "complex"

\* analyzeImageDistribution
analyzeImageDistribution(areas, total) ==
    LET n == Len(areas)
        large == Cardinality({i \in 1..n : areas[i] * n > 2 * total})
        small == Cardinality({i \in 1..n : 2 * areas[i] * n < total})
    IN [large |-> large, small |-> small, average |-> n - large - small,
        imbalance |-> Frac(Abs(large - small), n)]

\* analyzeShapeDistribution: ratio > 1.2, ratio < 0.8 with ratio = width / height
analyzeShapeDistribution(imgs) ==
    LET n == Len(imgs)
        landscape == Cardinality({i \in 1..n : 5 * imgs[i].width > 6 * imgs[i].height})
        portrait == Cardinality({i \in 1..n :
                        /\ ~(5 * imgs[i].width > 6 * imgs[i].height)
                        /\ 5 * imgs[i].width < 4 * imgs[i].height})
        square == n - landscape - portrait
    IN [landscape |-> landscape, portrait |-> portrait, square |-> square,
        dominant |-> Max(landscape, Max(portrait, square))]

\* analyzeImageFeatures(images) for at least one image; scaledVariance is
\* n^2 * (variance.width + variance.height), scaledAvgSize is
\* n * (avgSize.width + avgSize.height)
analyzeImageFeatures(imgs) ==
    LET withAreas(areas) ==
            LET withTotals(total, variance, size) ==
                    [count |-> Len(imgs),
                     totalArea |-> total,
                     areas |-> areas,
                     maxWidth |-> MaxOf([i \in 1..Len(imgs) |-> imgs[i].width]),
                     maxHeight |-> MaxOf([i \in 1..Len(imgs) |-> imgs[i].height]),
                     scaledVariance |-> variance,
                     scaledAvgSize |-> size,
                     complexity |-> complexityOf(Len(imgs), variance, size),
                     distribution |-> analyzeImageDistribution(areas, total),
                     shapeDistribution |-> analyzeShapeDistribution(imgs)]
            IN withTotals(SumSeq(areas), scaledTotalVariance(imgs), scaledAvgSize(imgs))
    IN withAreas(areasOf(imgs))

-----------------------------------------------------------------------------
(* SmartAlgorithmSelector: selectBestAlgorithm *)

Score(m, s) == [maxRectangles |-> m, shelf |-> s]
AddScores(a, b) == Score(a.maxRectangles + b.maxRectangles, a.shelf + b.shelf)

\* a variant whose last bracket credits the other algorithm
countRuleSwapped(features) ==
    IF features.count < 10 THEN Score(1, 3)
    ELSE IF features.count < 30 THEN Score(3, 1)
    ELSE Score(0, 4)

\* rule 1: the number of images
countRule(features) ==
    IF features.count < 10 THEN Score(1, 3)
    ELSE IF features.count < 30 THEN Score(3, 1)
    ELSE Score(4, 0)

\* rule 2: complexity
complexityRule(features) ==
    IF features.complexity = "simple" THEN Score(1, 3)
    ELSE IF features.complexity = "moderate" THEN Score(1, 1)
    ELSE Score(3, 0)

\* rule 3: varianceRatio = ((varianceWidth + varianceHeight) / 2) / avgSize
\* against 0.1 and 0.3; 0 / 0 is NaN and takes the last branch
varianceRule(features) ==
    LET tv == features.scaledVariance
        size == 2 * features.count * features.scaledAvgSize
    IN IF size > 0 /\ 10 * tv < size THEN Score(1, 3)
       ELSE IF size > 0 /\ 10 * tv < 3 * size THEN Score(1, 1)
       ELSE Score(3, 0)

\* rule 4: shape distribution
shapeRule(features) ==
    IF features.shapeDistribution.square = features.shapeDistribution.dominant
    THEN Score(2, 0)
    ELSE Score(1, 1)

\* rule 5: imbalance > 0.6
imbalanceRule(features) ==
    IF FracGreater(features.distribution.imbalance, Frac(6, 10))
    THEN Score(2, 0)
    ELSE Score(1, 1)

\* rule 6: historical success rate
successRateRule(stats) ==
    IF FracGreater(stats["maxRectangles"].successRate, stats["shelf"].successRate)
    THEN Score(2, 0)
    ELSE IF FracGreater(stats["shelf"].successRate, stats["maxRectangles"].successRate)
    THEN Score(0, 2)
    ELSE Score(0, 0)

\* rule 7: areaRatio = maxArea / minArea against 20, 10 and 2
areaRatioRule(features) ==
    LET maxArea == MaxOf(features.areas)
        minArea == -MaxOf([i \in 1..features.count |-> -features.areas[i]])
    IN IF maxArea > 20 * minArea THEN Score(3, 0)
       ELSE IF maxArea > 10 * minArea THEN Score(2, 0)
       ELSE IF maxArea < 2 * minArea THEN Score(0, 2)
       ELSE Score(1, 1)

\* a variant whose low-utilization branch credits both algorithms
utilizationRuleBoth(features) ==
    IF 10 * features.totalArea > 7 * ATLAS_AREA THEN Score(1, 1)
    ELSE IF 10 * features.totalArea < 3 * ATLAS_AREA THEN Score(1, 1)
    ELSE Score(0, 0)

\* rule 8: utilizationPotential = totalArea / totalAtlasArea against 0.7, 0.3
utilizationRule(features) ==
    IF 10 * features.totalArea > 7 * ATLAS_AREA THEN Score(1, 1)
    ELSE IF 10 * features.totalArea < 3 * ATLAS_AREA THEN Score(1, 0)
    ELSE Score(0, 0)

\* rule 9: the trend of the history
trendRule(hist) ==
    LET recommendation == getPerformanceTrend(hist)
    IN IF recommendation \in {"null", "auto"} THEN Score(0, 0)
       ELSE IF recommendation = "maxRectangles" THEN Score(2, 0)
       ELSE Score(0, 2)

\* statistics[algorithm].avgEfficiency; undefined after resetStatistics,
\* and undefined > 0 is false like NaN > 0
avgEfficiencyOf(stats, algorithm) ==
    IF "avgEfficiency" \in DOMAIN stats[algorithm]
    THEN stats[algorithm].avgEfficiency
    ELSE Frac(0, 0)

\* rule 10: average efficiency
avgEfficiencyRule(stats) ==
    LET maxRectanglesAvgEff == avgEfficiencyOf(stats, "maxRectangles")
        shelfAvgEff == avgEfficiencyOf(stats, "shelf")
        margin == Frac(STATS_EFFICIENCY_MARGIN, 1)
    IN IF /\ FracGreater(maxRectanglesAvgEff, Frac(0, 1))
          /\ FracGreater(shelfAvgEff, Frac(0, 1))
       THEN IF FracGreaterBy(maxRectanglesAvgEff, shelfAvgEff, margin) THEN Score(2, 0)
            ELSE IF FracGreaterBy(shelfAvgEff, maxRectanglesAvgEff, margin)
            THEN Score(0, 2)
            ELSE Score(0, 0)
       ELSE Score(0, 0)

\* the scores after the ten rules
scoresOf(features, stats, hist) ==
    AddScores(countRule(features),
    AddScores(complexityRule(features),
    AddScores(varianceRule(features),
    AddScores(shapeRule(features),
    AddScores(imbalanceRule(features),
    AddScores(successRateRule(stats),
    AddScores(areaRatioRule(features),
    AddScores(utilizationRule(features),
    AddScores(trendRule(hist), avgEfficiencyRule(stats))))))))))

\* a variant whose default is the other algorithm
defaultSelectionShelf ==
    [threw |-> FALSE, kind |-> "selection", algorithm |-> "shelf",
     confidence |-> Frac(1, 2), scored |-> FALSE]
\* what selectBestAlgorithm returns without images
defaultSelection ==
    [threw |-> FALSE, kind |-> "selection", algorithm |-> "maxRectangles",
     confidence |-> Frac(1, 2), scored |-> FALSE]

\* selectBestAlgorithm(images): algorithm, confidence = min(maxScore / 15, 1)
\* and the scores
selectBestAlgorithm(imgs, stats, hist) ==
    IF Len(imgs) = 0 THEN defaultSelection
    ELSE LET selected(features, scores) ==
                 [threw |-> FALSE, kind |-> "selection",
                  algorithm |-> IF scores.maxRectangles >= scores.shelf
                                THEN "maxRectangles"
                                ELSE "shelf",
                  confidence |->
                      Frac(Min(Max(scores.maxRectangles, scores.shelf), CONFIDENCE_SCALE),
                           CONFIDENCE_SCALE),
                  scored |-> TRUE, scores |-> scores, features |-> features]
             scored(features) == selected(features, scoresOf(features, stats, hist))
         IN scored(analyzeImageFeatures(imgs))

-----------------------------------------------------------------------------
(* SmartAlgorithmSelector: the other public methods.  Of their return      *)
(* values the display strings (reasons, advantages, bestFor) are left out. *)

\* what a call returns that throws a TypeError
TypeError == [threw |-> TRUE]
\* what recordResult and resetStatistics return
undefined == [threw |-> FALSE, kind |-> "undefined"]

\* getRecommendedConfig(images)
getRecommendedConfig(imgs, stats, hist) ==
    LET configured(selection) ==
            LET count == Len(imgs)
                small == /\ selection.scored
                         /\ ~(\/ selection.features.maxWidth > 1024
                              \/ selection.features.maxHeight > 1024)
                         /\ selection.features.totalArea < 512 * 512
            IN [threw |-> FALSE, kind |-> "config",
                algorithm |-> selection.algorithm,
                padding |-> IF count > 50 THEN 1
                            ELSE IF selection.scored /\ count < 10 THEN 4
                            ELSE 2,
                maxWidth |-> IF small THEN 1024 ELSE 2048,
                usePowerOfTwo |->
                    ~(selection.scored /\ selection.features.complexity = "complex"),
                selection |-> selection]
    IN configured(selectBestAlgorithm(imgs, stats, hist))

\* compareAlgorithms(images); without images selection.scores is undefined
\* and reading selection.scores.maxRectangles throws
compareAlgorithms(imgs, stats, hist) ==
    LET selection == selectBestAlgorithm(imgs, stats, hist)
    IN IF ~selection.scored THEN TypeError
       ELSE [threw |-> FALSE, kind |-> "comparison",
             features |-> selection.features,
             recommendation |-> selection,
             scores |-> selection.scores,
             winner |-> selection.algorithm,
             confidence |-> selection.confidence]

\* generateComparisonReport(images) at time timestamp
generateComparisonReport(imgs, stats, hist, timestamp) ==
    LET comparison == compareAlgorithms(imgs, stats, hist)
    IN IF comparison.threw THEN TypeError
       ELSE [threw |-> FALSE, kind |-> "report",
             timestamp |-> timestamp,
             count |-> comparison.features.count,
             totalArea |-> comparison.features.totalArea,
             complexity |-> comparison.features.complexity,
             algorithm |-> comparison.recommendation.algorithm,
             confidence |-> comparison.recommendation.confidence,
             score |-> comparison.recommendation.scores[
                           comparison.recommendation.algorithm],
             scores |-> comparison.scores]

\* getStatistics(): the statistics and the summary; the sort is stable, so
\* maxRectangles is the best algorithm unless shelf's success rate is higher
getStatistics(stats) ==
    [threw |-> FALSE, kind |-> "statistics",
     statistics |-> stats,
     totalUsage |-> stats["maxRectangles"].usage + stats["shelf"].usage,
     bestAlgorithm |->
         IF FracGreater(stats["shelf"].successRate, stats["maxRectangles"].successRate)
         THEN "shelf"
         ELSE "maxRectangles"]

\* a selector nothing was recorded on
NoSelector ==
    /\ statistics = constructorStatistics
    /\ history = <<>>
    /\ now = 0
    /\ recorded = <<>>
    /\ returned = undefined

-----------------------------------------------------------------------------
(* AlgorithmCache *)

DEFAULT_CACHE_SIZE == 100       \* constructor(maxSize = 100)

\* generateKey: the sorted, joined "WxH" strings are the multiset of the sizes,
\* here the number of images of each size; the options are those stringified
generateKey(imgs, algorithm, options) ==
    [imageHashes |->
        [size \in {<<imgs[i].width, imgs[i].height>> : i \in 1..Len(imgs)} |->
            Cardinality({i \in 1..Len(imgs) :
                            <<imgs[i].width, imgs[i].height>> = size})],
     algorithm |-> algorithm,
     padding |-> options.padding,
     maxWidth |-> options.maxWidth,
     usePowerOfTwo |-> options.usePowerOfTwo]

\* the position of key in the Map, 0 when it has none
mapIndex(entries, key) ==
    IF \E i \in 1..Len(entries) : entries[i].key = key
    THEN CHOOSE i \in 1..Len(entries) : entries[i].key = key
    ELSE 0

\* Map.delete(key)
mapDelete(entries, key) ==
    IF mapIndex(entries, key) = 0 THEN entries
    ELSE RemoveAt(entries, mapIndex(entries, key))

\* Map.set(key, value): a key the Map has keeps its position
mapSet(entries, key, value) ==
    IF mapIndex(entries, key) = 0
    THEN Append(entries, [key |-> key, value |-> value])
    ELSE [entries EXCEPT ![mapIndex(entries, key)].value = value]

\* AlgorithmCache.get: [hit, value, cache]; a hit moves the entry to the end
cacheGet(entries, key) ==
    IF mapIndex(entries, key) = 0
    THEN [hit |-> FALSE, cache |-> entries]
    ELSE [hit |-> TRUE, value |-> entries[mapIndex(entries, key)].value,
          cache |-> mapSet(mapDelete(entries, key), key,
                           entries[mapIndex(entries, key)].value)]

\* AlgorithmCache.set: [cache, firstKey]; firstKey is the key deleted, if any
cacheSet(entries, size, key, value) ==
    IF Len(entries) >= size /\ entries # <<>>
    THEN [deleted |-> TRUE, firstKey |-> entries[1].key,
          cache |-> mapSet(mapDelete(entries, entries[1].key), key, value)]
    ELSE [deleted |-> FALSE, cache |-> mapSet(entries, key, value)]

\* the keys in order of their last use, after key was used
touch(keys, key) ==
    Append(SelectSeq(keys, LAMBDA k : k # key), key)

NoEviction == [deleted |-> FALSE]

\* the objects of the enhanced app before anything was loaded
NoApp ==
    /\ cache = <<>>
    /\ maxSize = DEFAULT_CACHE_SIZE
    /\ hits = 0
    /\ misses = 0
    /\ recency = <<>>
    /\ evicted = NoEviction
    /\ atlasFrames = null
    /\ isProcessing = FALSE
    /\ generating = <<>>
    /\ isEnabled = TRUE
    /\ processing = FALSE
    /\ runs = <<>>

-----------------------------------------------------------------------------
(* The packers applied to bounded inputs *)

MaxItems == 4

\* the sizes the input items are drawn from
ItemSizes == <<[width |-> 20, height |-> 20], [width |-> 20, height |-> 81],
               [width |-> 100, height |-> 30], [width |-> 30, height |-> 100],
               [width |-> 40, height |-> 1500]>>
Paddings == {0, 2}
MaxWidths == {32, 64, 2048}

\* the item lists of at most n items, the item at position i named i; lists
\* that differ only in the order of their items are represented by one of them
ImageLists(n) ==
    UNION {{[i \in 1..k |-> [name |-> i, width |-> ItemSizes[f[i]].width,
                             height |-> ItemSizes[f[i]].height]] :
               f \in {g \in [1..k -> 1..Len(ItemSizes)] :
                         \A i \in 1..k, j \in 1..k : i < j => g[i] <= g[j]}} :
           k \in 0..n}

InitPack ==
    /\ images \in ImageLists(MaxItems)
    /\ padding \in Paddings
    /\ maxWidth \in MaxWidths
    /\ usePowerOfTwo \in BOOLEAN
    /\ packingAlgorithm = "maxRectangles"
    /\ maxImagesPerAtlas = 0
    /\ call = "none"
    /\ attempts = <<>>
    /\ result = null
    /\ mergedGroups = <<>>
    /\ groups = <<>>
    /\ atlases = <<>>
    /\ NoSelector
    /\ NoApp

PackMaxRects ==
    /\ call = "none"
    /\ \E search \in {searchMaxRectangles(images, padding, maxWidth, usePowerOfTwo)} :
          /\ result' = search.bestResult
          /\ attempts' = search.attempts
    /\ call' = "packImagesWithMaxRectangles"
    /\ UNCHANGED <<images, padding, maxWidth, usePowerOfTwo, packingAlgorithm,
                   maxImagesPerAtlas, mergedGroups, groups, atlases>>
    /\ UNCHANGED selectorVars
    /\ UNCHANGED appVars

PackShelf ==
    /\ call = "none"
    /\ \E search \in {searchShelf(images, padding, maxWidth, usePowerOfTwo)} :
          /\ result' = search.bestResult
          /\ attempts' = search.attempts
    /\ call' = "packImages"
    /\ UNCHANGED <<images, padding, maxWidth, usePowerOfTwo, packingAlgorithm,
                   maxImagesPerAtlas, mergedGroups, groups, atlases>>
    /\ UNCHANGED selectorVars
    /\ UNCHANGED appVars

NextPack == PackMaxRects \/ PackShelf

SpecPack == InitPack /\ [][NextPack]_vars

-----------------------------------------------------------------------------
(* Properties of the packers *)

\* the layouts the single packing attempts of the search returned
AttemptLayouts == {attempts[k].packed : k \in {j \in 1..Len(attempts) : attempts[j].packed.ok}}

\* the padded boxes [x, x + width + pad) x [y, y + height + pad) of f and g
PaddedDisjoint(f, g, pad) ==
    \/ f.x + f.width + pad <= g.x
    \/ g.x + g.width + pad <= f.x
    \/ f.y + YU * (f.height + pad) <= g.y
    \/ g.y + YU * (g.height + pad) <= f.y

NoOverlap(layout, pad) ==
    \A i, j \in 1..Len(layout.frames) :
        i < j => PaddedDisjoint(layout.frames[i], layout.frames[j], pad)

\* C1: in every Layout returned by packImagesWithMaxRectangles or packImages,
\* the padded boxes of any two distinct frames do not overlap.
C1_NoOverlap == result.ok => NoOverlap(result, padding)

C1_Witness ==
    /\ result.ok /\ padding > 0 /\ Len(result.frames) = 3
    /\ \E i, j \in 1..3 :
          /\ i # j
          /\ result.frames[i].x + result.frames[i].width + padding = result.frames[j].x
          /\ result.frames[i].y < result.frames[j].y + YU * result.frames[j].height
          /\ result.frames[j].y < result.frames[i].y + YU * result.frames[i].height

Contained(layout) ==
    \A i \in 1..Len(layout.frames) :
        LET f == layout.frames[i]
        IN /\ 0 <= f.x
           /\ 0 <= f.y
           /\ f.x + f.width <= layout.width
           /\ f.y + YU * f.height <= layout.height

\* C2: in every returned Layout every frame lies inside the layout:
\* 0 <= x, 0 <= y, x + width <= layout.width and y + height <= layout.height.
C2_Containment == result.ok => Contained(result)

C2_Witness ==
    /\ result.ok /\ ~usePowerOfTwo /\ Len(result.frames) >= 2
    /\ \E i \in 1..Len(result.frames) :
          result.frames[i].x + result.frames[i].width + padding = result.width
    /\ \E i \in 1..Len(result.frames) :
          result.frames[i].y + YU * (result.frames[i].height + padding) = result.height

\* the frames of layout are the items of imgs, each exactly once
ExactlyOnce(layout, imgs) ==
    /\ Len(layout.frames) = Len(imgs)
    /\ \A i \in 1..Len(imgs) :
          \E k \in 1..Len(layout.frames) :
              /\ layout.frames[k].name = imgs[i].name
              /\ layout.frames[k].originalWidth = imgs[i].width
              /\ layout.frames[k].originalHeight = imgs[i].height
              /\ \A m \in 1..Len(layout.frames) :
                    layout.frames[m].name = imgs[i].name => m = k

\* C3: a single packing attempt either fails with no Layout or returns a
\* Layout that holds every input item exactly once.
C3_AllOrNothing ==
    \A k \in 1..Len(attempts) :
        attempts[k].packed.ok => ExactlyOnce(attempts[k].packed, images)

C3_Witness ==
    /\ Len(images) = 3
    /\ \E k \in 1..Len(attempts) : attempts[k].packed.ok
    /\ \E k \in 1..Len(attempts) : ~attempts[k].packed.ok

RotationConsistent(layout) ==
    \A i \in 1..Len(layout.frames) :
        LET f == layout.frames[i]
        IN IF f.rotated
           THEN f.width = f.originalHeight /\ f.height = f.originalWidth
           ELSE f.width = f.originalWidth /\ f.height = f.originalHeight

\* C4: a frame marked rotated has its placed width equal to the original
\* height and its placed height equal to the original width (and an unrotated
\* frame keeps its dimensions), on every placement path of both packers.
C4_RotationDims ==
    /\ result.ok => RotationConsistent(result)
    /\ \A layout \in AttemptLayouts : RotationConsistent(layout)

\* a rotated frame merged into a shelf whose earlier frame was re-centred by
\* half a pixel, in a layout the Shelf search returned
C4_Witness ==
    /\ call = "packImages" /\ result.ok
    /\ \E i, j \in 1..Len(result.frames) :
          LET f == result.frames[i]
              g == result.frames[j]
          IN /\ f.rotated /\ f.originalWidth # f.originalHeight
             /\ g.y % YU = 1
             /\ g.x < f.x
             /\ f.y < g.y /\ g.y < f.y + YU * f.height

PowersOfTwo == {Pow2(k) : k \in 0..MAX_POW}

\* C5: in power-of-two mode the returned Layout's width and height are exact
\* powers of two, neither above 2048; an attempt whose rounded width or
\* height exceeds 2048 is not the one returned.
C5_PowerOfTwo ==
    (usePowerOfTwo /\ result.ok) =>
        /\ result.width \in PowersOfTwo
        /\ result.height \in {YU * p : p \in PowersOfTwo}
        /\ \E layout \in AttemptLayouts :
              /\ layout.frames = result.frames
              /\ layout.width <= result.width
              /\ layout.height <= result.height

C5_Witness ==
    /\ usePowerOfTwo /\ result.ok
    /\ \E layout \in AttemptLayouts : layout.height > YU * MAX_ATLAS_SIZE
    /\ \E layout \in AttemptLayouts :
          layout.frames = result.frames /\ layout.width < result.width

\* C6: when some item is larger than min(maxWidth, 2048) in both dimensions,
\* packImagesWithMaxRectangles and packImages return no Layout, whatever
\* maxWidth and the power-of-two mode are.
C6_OversizedItemFails ==
    (/\ call # "none"
     /\ \E i \in 1..Len(images) :
           /\ images[i].width > Min(maxWidth, MAX_ATLAS_SIZE)
           /\ images[i].height > Min(maxWidth, MAX_ATLAS_SIZE))
    => ~result.ok

-----------------------------------------------------------------------------
(* The grouper applied to bounded inputs *)

MaxRuns == 4
MaxRunLength == 51

\* the runs of equal items the grouper's inputs are made of
RunKinds ==
    <<[width |-> 10, height |-> 10, count |-> 1],
      [width |-> 10, height |-> 30, count |-> 1],
      [width |-> 200, height |-> 200, count |-> 4],
      [width |-> 100, height |-> 300, count |-> 5],
      [width |-> 20, height |-> 20, count |-> MaxRunLength],
      [width |-> 1024, height |-> 1024, count |-> 3],
      [width |-> 2048, height |-> 2048, count |-> 1],
      [width |-> 400, height |-> 400, count |-> 1]>>

\* the items of the runs kinds[1], kinds[2], ..., named from first on
RECURSIVE RunItems(_, _)
RunItems(kinds, first) ==
    IF kinds = <<>> THEN <<>>
    ELSE LET run == RunKinds[Head(kinds)]
         IN [i \in 1..run.count |->
                [name |-> first + i - 1, width |-> run.width, height |-> run.height]]
            \o RunItems(Tail(kinds), first + run.count)

\* the item lists made of at most n runs of distinct kinds
RunLists(n) ==
    UNION {{RunItems(kinds, 1) :
               kinds \in {f \in [1..k -> 1..Len(RunKinds)] :
                             \A i \in 1..k, j \in 1..k : i # j => f[i] # f[j]}} :
           k \in 0..n}

InitGroup ==
    /\ images \in RunLists(MaxRuns)
    /\ padding = 0
    /\ maxWidth = DEFAULT_MAX_WIDTH
    /\ usePowerOfTwo = TRUE
    /\ packingAlgorithm = "maxRectangles"
    /\ maxImagesPerAtlas = 0
    /\ call = "none"
    /\ attempts = <<>>
    /\ result = null
    /\ mergedGroups = <<>>
    /\ groups = <<>>
    /\ atlases = <<>>
    /\ NoSelector
    /\ NoApp

\* new ImageGrouper().groupImages(images)
GroupImages ==
    /\ call = "none"
    /\ mergedGroups' = mergedGroupsOf(GROUPING_CONFIG, images)
    /\ groups' = groupImages(GROUPING_CONFIG, images)
    /\ call' = "groupImages"
    /\ UNCHANGED <<images, padding, maxWidth, usePowerOfTwo, packingAlgorithm,
                   maxImagesPerAtlas, attempts, result, atlases>>
    /\ UNCHANGED selectorVars
    /\ UNCHANGED appVars

NextGroup == GroupImages

SpecGroup == InitGroup /\ [][NextGroup]_vars

-----------------------------------------------------------------------------
(* Properties of the grouper *)

RECURSIVE TotalItems(_)
TotalItems(groupList) ==
    IF groupList = <<>> THEN 0
    ELSE Len(Head(groupList).items) + TotalItems(Tail(groupList))

\* C7: the groups returned by groupImages partition the input: the group
\* sizes add up to the input length and every input item is in exactly one
\* place of exactly one group.
C7_Partition ==
    call = "groupImages" =>
        /\ TotalItems(groups) = Len(images)
        /\ \A i \in 1..Len(images) :
              Cardinality({g \in 1..Len(groups) :
                              \E k \in 1..Len(groups[g].items) :
                                  groups[g].items[k] = images[i]}) = 1

C7_Witness ==
    /\ call = "groupImages"
    /\ Len(groups) > Len(mergedGroups)
    /\ \E g \in 1..Len(groups) : groups[g].name = "split_group"
    /\ \E g \in 1..Len(groups) : Len(groups[g].items) = MAX_IMAGES_PER_GROUP
    /\ \E g \in 1..Len(mergedGroups) :
          \E i, j \in 1..Len(mergedGroups[g].items) :
              mergedGroups[g].items[i].width # mergedGroups[g].items[j].width

\* C8: after mergeSmallGroups all but at most one group has at least 5 items.
C8_AtMostOneSmallGroup ==
    Cardinality({g \in 1..Len(mergedGroups) :
                    Len(mergedGroups[g].items) < SMALL_GROUP}) <= 1

\* C9: every group returned by groupImages has at most MAX_IMAGES_PER_GROUP
\* items, and its total item area is at most MAX_AREA_PER_GROUP unless it is
\* a single item that alone exceeds the area cap.
C9_GroupCaps ==
    \A g \in 1..Len(groups) :
        /\ Len(groups[g].items) <= MAX_IMAGES_PER_GROUP
        /\ \/ SumArea(groups[g].items) <= MAX_AREA_PER_GROUP
           \/ Len(groups[g].items) = 1

C9_Witness ==
    /\ call = "groupImages"
    /\ \E g \in 1..Len(mergedGroups) :
          Len(mergedGroups[g].items) > MAX_IMAGES_PER_GROUP
    /\ \E g \in 1..Len(mergedGroups) :
          /\ Len(mergedGroups[g].items) > 1
          /\ SumArea(mergedGroups[g].items) > MAX_AREA_PER_GROUP
    /\ \E g \in 1..Len(groups) :
          /\ Len(groups[g].items) = 1
          /\ SumArea(groups[g].items) > MAX_AREA_PER_GROUP

-----------------------------------------------------------------------------
(* The multi-atlas packer applied to bounded inputs *)

\* the maxImagesPerAtlas option of the constructor; 0: not given
ImagesPerAtlasOptions == {0, 1, 2}

InitMulti ==
    /\ images \in ImageLists(MaxItems)
    /\ padding \in Paddings     \* options.padding, as given to the constructor
    /\ maxWidth \in {orDefault(option, DEFAULT_MAX_WIDTH) : option \in MaxWidths}
    /\ usePowerOfTwo \in BOOLEAN
    /\ packingAlgorithm \in {"maxRectangles", "shelf"}
    /\ maxImagesPerAtlas \in {orDefault(option, DEFAULT_MAX_IMAGES_PER_ATLAS) :
                                 option \in ImagesPerAtlasOptions}
    /\ call = "none"
    /\ attempts = <<>>
    /\ result = null
    /\ mergedGroups = <<>>
    /\ groups = <<>>
    /\ atlases = <<>>
    /\ NoSelector
    /\ NoApp

\* new MultiAtlasPacker({padding, ...}).pack(images): this.padding is
\* options.padding || 2
MultiPack ==
    /\ call = "none"
    /\ atlases' = multiAtlasPack(images, packingAlgorithm,
                                 orDefault(padding, DEFAULT_PADDING), maxWidth,
                                 usePowerOfTwo, maxImagesPerAtlas)
    /\ call' = "pack"
    /\ UNCHANGED <<images, padding, maxWidth, usePowerOfTwo, packingAlgorithm,
                   maxImagesPerAtlas, attempts, result, mergedGroups, groups>>
    /\ UNCHANGED selectorVars
    /\ UNCHANGED appVars

NextMulti == MultiPack

SpecMulti == InitMulti /\ [][NextMulti]_vars

\* C10: every Layout returned by MultiAtlasPacker.pack holds at most the
\* packer's maxImagesPerAtlas items.
C10_AtlasItemCap ==
    \A a \in 1..Len(atlases) : Len(atlases[a].frames) <= maxImagesPerAtlas

-----------------------------------------------------------------------------
(* The selector applied to bounded inputs *)

MaxCalls == 52
FreeCalls == 3
EarlyCalls == 2

\* the arguments of recordResult: algorithm, success, efficiency
RecordInputs ==
    {<<"maxRectangles", TRUE, 60>>, <<"maxRectangles", FALSE, 70>>,
     <<"shelf", TRUE, 90>>, <<"shelf", TRUE, 50>>, <<"shelf", TRUE, 0>>,
     <<"greedy", TRUE, 80>>}

\* count items of one size
Uniform(count, width, height) ==
    [i \in 1..count |-> [name |-> i, width |-> width, height |-> height]]

\* the item lists given to selectBestAlgorithm
SelectInputs ==
    {<<>>,
     Uniform(5, 100, 100),
     Uniform(9, 700, 700),
     Uniform(20, 200, 400) \o Uniform(20, 400, 200)}

\* the item lists given to the other methods
ReportInputs == {<<>>, Uniform(5, 100, 100)}

InitSelector ==
    /\ images = <<>>
    /\ padding = DEFAULT_PADDING
    /\ maxWidth = DEFAULT_MAX_WIDTH
    /\ usePowerOfTwo = TRUE
    /\ packingAlgorithm = "maxRectangles"
    /\ maxImagesPerAtlas = 0
    /\ call = "none"
    /\ attempts = <<>>
    /\ result = null
    /\ mergedGroups = <<>>
    /\ groups = <<>>
    /\ atlases = <<>>
    /\ statistics = constructorStatistics
    /\ history = <<>>
    /\ now = 0
    /\ recorded = <<>>
    /\ returned = undefined
    /\ NoApp

packerVars == <<padding, maxWidth, usePowerOfTwo, packingAlgorithm, maxImagesPerAtlas,
                attempts, result, mergedGroups, groups, atlases>>

\* selector.recordResult(algorithm, success, efficiency) at time now; the
\* first FreeCalls calls take any arguments, the later ones repeat the last
RecordResult ==
    /\ Len(recorded) < MaxCalls
    /\ \E input \in RecordInputs :
          /\ IF Len(recorded) < FreeCalls THEN TRUE
             ELSE input = recorded[Len(recorded)]
          /\ \E after \in {recordResult(statistics, history,
                                        input[1], input[2], input[3], now)} :
                /\ statistics' = after.statistics
                /\ history' = after.history
                /\ returned' = IF after.threw THEN TypeError ELSE undefined
          /\ recorded' = Append(recorded, input)
    /\ now' = now + 1
    /\ call' = "recordResult"
    /\ images' = <<>>
    /\ UNCHANGED packerVars
    /\ UNCHANGED appVars

\* selector.selectBestAlgorithm(images)
SelectBestAlgorithm ==
    /\ \E imgs \in SelectInputs :
          /\ images' = imgs
          /\ returned' = selectBestAlgorithm(imgs, statistics, history)
    /\ call' = "selectBestAlgorithm"
    /\ UNCHANGED <<statistics, history, now, recorded>>
    /\ UNCHANGED packerVars
    /\ UNCHANGED appVars

\* selector.getRecommendedConfig(images)
GetRecommendedConfig ==
    /\ \E imgs \in ReportInputs :
          /\ images' = imgs
          /\ returned' = getRecommendedConfig(imgs, statistics, history)
    /\ call' = "getRecommendedConfig"
    /\ UNCHANGED <<statistics, history, now, recorded>>
    /\ UNCHANGED packerVars
    /\ UNCHANGED appVars

\* selector.compareAlgorithms(images)
CompareAlgorithms ==
    /\ \E imgs \in ReportInputs :
          /\ images' = imgs
          /\ returned' = compareAlgorithms(imgs, statistics, history)
    /\ call' = "compareAlgorithms"
    /\ UNCHANGED <<statistics, history, now, recorded>>
    /\ UNCHANGED packerVars
    /\ UNCHANGED appVars

\* selector.generateComparisonReport(images)
GenerateComparisonReport ==
    /\ \E imgs \in ReportInputs :
          /\ images' = imgs
          /\ returned' = generateComparisonReport(imgs, statistics, history, now)
    /\ call' = "generateComparisonReport"
    /\ UNCHANGED <<statistics, history, now, recorded>>
    /\ UNCHANGED packerVars
    /\ UNCHANGED appVars

\* a variant that attaches the summary to this.statistics instead of a copy
GetStatisticsInPlace ==
    /\ images' = <<>>
    /\ returned' = getStatistics(statistics)
    /\ statistics' =
          [k \in DOMAIN statistics \cup {"summary"} |->
              IF k = "summary"
              THEN [totalUsage |-> getStatistics(statistics).totalUsage,
                    bestAlgorithm |-> getStatistics(statistics).bestAlgorithm]
              ELSE statistics[k]]
    /\ call' = "getStatistics"
    /\ UNCHANGED <<history, now, recorded>>
    /\ UNCHANGED packerVars
    /\ UNCHANGED appVars

\* selector.getStatistics()
GetStatistics ==
    /\ images' = <<>>
    /\ returned' = getStatistics(statistics)
    /\ call' = "getStatistics"
    /\ UNCHANGED <<statistics, history, now, recorded>>
    /\ UNCHANGED packerVars
    /\ UNCHANGED appVars

\* selector.resetStatistics()
ResetStatistics ==
    /\ statistics' = resetStatistics
    /\ images' = <<>>
    /\ returned' = undefined
    /\ call' = "resetStatistics"
    /\ UNCHANGED <<history, now, recorded>>
    /\ UNCHANGED packerVars
    /\ UNCHANGED appVars

\* recordResult as one of the first EarlyCalls calls
RecordResultEarly == Len(recorded) < EarlyCalls /\ RecordResult

\* recording and selecting, up to MaxCalls calls of recordResult
NextSelector == RecordResult \/ SelectBestAlgorithm

SpecSelector == InitSelector /\ [][NextSelector]_vars

\* every public method of the selector, up to EarlyCalls calls of
\* recordResult, and the grouper on the same items
NextMethods ==
    \/ GroupImages
    \/ RecordResultEarly
    \/ SelectBestAlgorithm
    \/ GetRecommendedConfig
    \/ CompareAlgorithms
    \/ GenerateComparisonReport
    \/ GetStatistics
    \/ ResetStatistics

SpecMethods == InitSelector /\ [][NextMethods]_vars

-----------------------------------------------------------------------------
(* Properties of the selector *)

\* the history of a selector that recorded the same results, all at time 0
atTimeZero(hist) == [i \in 1..Len(hist) |-> [hist[i] EXCEPT !.timestamp = 0]]

\* C11: selectBestAlgorithm returns the algorithm and the confidence that a
\* selector with the same statistics and the same history, recorded at other
\* times, returns for the same items.
C11_Deterministic ==
    call = "selectBestAlgorithm" =>
        LET twin == selectBestAlgorithm(images, statistics, atTimeZero(history))
        IN /\ returned.algorithm = twin.algorithm
           /\ returned.confidence = twin.confidence

\* a selection on items, with a history longer than the trend's window whose
\* timestamps differ and whose trend recommends an algorithm
C11_Witness ==
    /\ call = "selectBestAlgorithm"
    /\ images # <<>>
    /\ Len(history) > TREND_WINDOW
    /\ history[1].timestamp # history[Len(history)].timestamp
    /\ getPerformanceTrend(history) \in {"maxRectangles", "shelf"}

\* C12 as stated: the statistics and the history change only in calls of
\* recordResult.
C12_OnlyRecordResultMutates ==
    [][call' # "recordResult" => UNCHANGED <<statistics, history>>]_vars

\* C12: the statistics change only in calls of recordResult and
\* resetStatistics, and the history only in calls of recordResult.
C12_OnlyRecordAndResetMutate ==
    [][/\ call' \notin {"recordResult", "resetStatistics"} =>
             UNCHANGED <<statistics, history>>
       /\ call' = "resetStatistics" => UNCHANGED history]_vars

\* a report was generated on a selector that has recorded results
C12_Witness ==
    /\ call = "generateComparisonReport"
    /\ ~returned.threw
    /\ Len(history) > 0
    /\ statistics # constructorStatistics

\* the last n elements of s
LastOf(s, n) == SubSeq(s, Max(1, Len(s) - n + 1), Len(s))

\* the records of the calls of recordResult so far: call i was made at time i - 1
RecordedCalls ==
    [i \in 1..Len(recorded) |->
        [algorithm |-> recorded[i][1], success |-> recorded[i][2],
         efficiency |-> recorded[i][3], timestamp |-> i - 1]]

\* C13: on a fresh selector the history is the last 50 calls of recordResult
\* with a known algorithm, in call order, and each algorithm's efficiency
\* buffer is the last 50 efficiencies of its calls with success and a
\* positive efficiency, in call order.
C13_RingBuffers ==
    /\ Len(history) <= MAX_HISTORY_SIZE
    /\ history = LastOf(SelectSeq(RecordedCalls,
                                  LAMBDA c : c.algorithm \in {"maxRectangles", "shelf"}),
                        MAX_HISTORY_SIZE)
    /\ \A a \in {"maxRectangles", "shelf"} :
          LET measured == SelectSeq(RecordedCalls,
                              LAMBDA c : c.algorithm = a /\ c.success /\ c.efficiency > 0)
          IN /\ Len(statistics[a].efficiencies) <= MAX_EFFICIENCIES
             /\ statistics[a].efficiencies =
                    LastOf([i \in 1..Len(measured) |-> measured[i].efficiency],
                           MAX_EFFICIENCIES)

\* the history and shelf's efficiency buffer are full, an efficiency that
\* differs from the oldest one kept was recorded before the oldest record
\* kept, and a call with an unknown algorithm was made
C13_Witness ==
    /\ Len(history) = MAX_HISTORY_SIZE
    /\ \E i \in 1..Len(recorded) :
          /\ recorded[i][1] = "shelf" /\ recorded[i][2] /\ recorded[i][3] > 0
          /\ recorded[i][3] # statistics["shelf"].efficiencies[1]
          /\ i - 1 < history[1].timestamp
    /\ Len(statistics["shelf"].efficiencies) = MAX_EFFICIENCIES
    /\ \E i \in 1..Len(recorded) : recorded[i][1] = "greedy"

\* ((varianceWidth + varianceHeight) / 2) / (avgWidth + avgHeight) > 0.3
HighVariance(imgs) ==
    10 * scaledTotalVariance(imgs) > 3 * 2 * Len(imgs) * scaledAvgSize(imgs)

\* C14: for 40 items whose variance ratio exceeds 0.3, selectBestAlgorithm
\* returns maxRectangles, whatever was recorded on the selector.
C14_HighVarianceMaxRectangles ==
    (call = "selectBestAlgorithm" /\ Len(images) = 40 /\ HighVariance(images)) =>
        returned.algorithm = "maxRectangles"

\* such a selection on a selector whose success rates, average efficiencies
\* and trend all credit shelf
C14_Witness ==
    /\ call = "selectBestAlgorithm"
    /\ Len(images) = 40
    /\ HighVariance(images)
    /\ successRateRule(statistics) = Score(0, 2)
    /\ avgEfficiencyRule(statistics) = Score(0, 2)
    /\ trendRule(history) = Score(0, 2)
    /\ returned.scores.shelf = 11

\* at least one and fewer than 10 items, all of one size
FewUniform(imgs) ==
    /\ Len(imgs) > 0
    /\ Len(imgs) < 10
    /\ \A i \in 1..Len(imgs) :
          imgs[i].width = imgs[1].width /\ imgs[i].height = imgs[1].height

\* C15: on a selector with no recorded results, fewer than 10 items of one
\* size are recommended shelf, with a shelf total above the maxRectangles
\* total and confidence min(shelf total / 15, 1): 0.8 for five 100x100 items.
C15_UniformFewShelf ==
    (/\ call = "selectBestAlgorithm"
     /\ statistics = constructorStatistics
     /\ history = <<>>
     /\ FewUniform(images)) =>
        /\ returned.algorithm = "shelf"
        /\ returned.scores.shelf > returned.scores.maxRectangles
        /\ returned.confidence.num * CONFIDENCE_SCALE =
               Min(returned.scores.shelf, CONFIDENCE_SCALE) * returned.confidence.den
        /\ images = Uniform(5, 100, 100) =>
               returned.confidence.num * 10 = 8 * returned.confidence.den

\* the selection for five 100x100 items on a selector with no recorded results
C15_Witness ==
    /\ call = "selectBestAlgorithm"
    /\ statistics = constructorStatistics
    /\ history = <<>>
    /\ images = Uniform(5, 100, 100)
    /\ returned.scores = Score(7, 12)

\* C16 as stated: on an empty item list groupImages returns no groups and
\* selectBestAlgorithm returns an empty result, one that recommends nothing.
C16_EmptyResults ==
    /\ (call = "groupImages" /\ images = <<>>) => groups = <<>>
    /\ (call = "selectBestAlgorithm" /\ images = <<>>) =>
           "algorithm" \notin DOMAIN returned

\* C16: selectBestAlgorithm never throws; on an empty item list groupImages
\* returns no groups and selectBestAlgorithm returns its default, maxRectangles
\* with confidence 0.5, without scores.
C16_EmptyDefaults ==
    /\ call = "selectBestAlgorithm" => ~returned.threw
    /\ (call = "groupImages" /\ images = <<>>) => groups = <<>>
    /\ (call = "selectBestAlgorithm" /\ images = <<>>) =>
           /\ returned.algorithm = "maxRectangles"
           /\ returned.confidence.num * 2 = returned.confidence.den
           /\ ~returned.scored

\* a selection without items on a selector that has recorded results
C16_Witness ==
    /\ call = "selectBestAlgorithm"
    /\ images = <<>>
    /\ Len(history) > 0
    /\ returned.kind = "selection"

-----------------------------------------------------------------------------
(* The packers applied to the items of the test script *)

\* testCases[0].images
TestImages ==
    <<[name |-> 1, width |-> 100, height |-> 100],
      [name |-> 2, width |-> 150, height |-> 80],
      [name |-> 3, width |-> 120, height |-> 120]>>

\* one or more of the test images, in any order
TestLists ==
    UNION {{[i \in 1..k |-> TestImages[f[i]]] :
               f \in {g \in [1..k -> 1..Len(TestImages)] :
                         \A i \in 1..k, j \in 1..k : i # j => g[i] # g[j]}} :
           k \in 1..Len(TestImages)}

TestMaxWidths == {512, 2048}

InitTests ==
    /\ images \in TestLists
    /\ padding \in Paddings
    /\ maxWidth \in TestMaxWidths
    /\ usePowerOfTwo \in BOOLEAN
    /\ packingAlgorithm = "maxRectangles"
    /\ maxImagesPerAtlas = 0
    /\ call = "none"
    /\ attempts = <<>>
    /\ result = null
    /\ mergedGroups = <<>>
    /\ groups = <<>>
    /\ atlases = <<>>
    /\ NoSelector
    /\ NoApp

SpecTests == InitTests /\ [][NextPack]_vars

\* C17: for the three test images in any order, padding 2, maxWidth 2048 and
\* power-of-two output, both searches return a layout that holds the three
\* items and is less than twice their area of 36,400.
C17_TestCaseUtilization ==
    (/\ call \in {"packImages", "packImagesWithMaxRectangles"}
     /\ Len(images) = Len(TestImages)
     /\ padding = 2
     /\ maxWidth = 2048
     /\ usePowerOfTwo) =>
        /\ result.ok
        /\ ExactlyOnce(result, images)
        /\ SumArea(images) = 36400
        /\ 2 * YU * SumArea(images) > result.width * result.height

\* packImages has packed the test images in the order of the test script
C17_Witness ==
    /\ call = "packImages"
    /\ images = TestImages
    /\ padding = 2
    /\ maxWidth = 2048
    /\ usePowerOfTwo
    /\ result.ok
    /\ Len(result.frames) = 3

-----------------------------------------------------------------------------
(* The widths and the choice of the searches *)

\* C18: every working width tried is, in power-of-two mode, a power of two
\* in [64, min(maxWidth, 2048)] and, in raw mode, a width in [256, maxWidth].
C18_WorkingWidths ==
    \A k \in 1..Len(attempts) :
        IF usePowerOfTwo
        THEN /\ attempts[k].width \in PowersOfTwo
             /\ attempts[k].width >= Pow2(MIN_POW)
             /\ attempts[k].width <= Min(maxWidth, MAX_ATLAS_SIZE)
        ELSE /\ attempts[k].width >= MIN_RAW_WIDTH
             /\ attempts[k].width <= maxWidth

\* the bounds an attempt's layout is given before it is compared
FinalWidth(packed) ==
    IF usePowerOfTwo THEN nextPowerOf2(packed.width, 1) ELSE packed.width

FinalHeight(packed) ==
    IF usePowerOfTwo THEN YU * nextPowerOf2(packed.height, YU) ELSE packed.height

\* the attempts that produced a valid layout
ValidAttempts ==
    {k \in 1..Len(attempts) :
        /\ attempts[k].packed.ok
        /\ usePowerOfTwo =>
              /\ FinalWidth(attempts[k].packed) <= MAX_ATLAS_SIZE
              /\ FinalHeight(attempts[k].packed) <= YU * MAX_ATLAS_SIZE}

\* C19: for a non-empty item list the returned layout is that of a valid
\* attempt and no valid attempt has a higher efficiency, that is, a smaller
\* final area (equal efficiencies are equal areas, the items being the
\* same); the result is null exactly when no attempt was valid.
C19_BestAttempt ==
    (call \in {"packImages", "packImagesWithMaxRectangles"} /\ images # <<>>) =>
        IF ValidAttempts = {} THEN result = null
        ELSE /\ result.ok
             /\ \E k \in ValidAttempts :
                   /\ result.frames = attempts[k].packed.frames
                   /\ result.width = FinalWidth(attempts[k].packed)
                   /\ result.height = FinalHeight(attempts[k].packed)
             /\ \A j \in ValidAttempts :
                   result.width * result.height
                       <= FinalWidth(attempts[j].packed) * FinalHeight(attempts[j].packed)

\* the returned layout is strictly better than some valid attempt and is not
\* the first valid one
C19_Witness ==
    /\ call \in {"packImages", "packImagesWithMaxRectangles"}
    /\ result.ok
    /\ \E j, k \in ValidAttempts :
          /\ j < k
          /\ \A i \in ValidAttempts : i >= j
          /\ result.frames = attempts[k].packed.frames
          /\ result.width * result.height
                 < FinalWidth(attempts[j].packed) * FinalHeight(attempts[j].packed)

-----------------------------------------------------------------------------
(* The placements of maxRectanglesPack *)

\* the free rectangles left by the frames placed so far, first to last
RECURSIVE FreeAfter(_, _, _)
FreeAfter(frames, pad, width) ==
    IF frames = <<>>
    THEN <<[x |-> 0, y |-> 0, width |-> width, height |-> WORK_HEIGHT]>>
    ELSE LET last == frames[Len(frames)]
         IN splitFreeRectangles(
                FreeAfter(SubSeq(frames, 1, Len(frames) - 1), pad, width),
                usedRectangle([x |-> last.x, y |-> last.y \div YU], last, pad))

\* the free rectangles of fr a node of the given size fits in
Fits(fr, width, height) ==
    {k \in 1..Len(fr) : fr[k].width >= width /\ fr[k].height >= height}

ShortSide(rect, width, height) == Min(rect.width - width, rect.height - height)
LongSide(rect, width, height) == Max(rect.width - width, rect.height - height)

\* fr[k] fits the node and no fitting rectangle has a smaller short leftover,
\* or the same short leftover and a smaller long one
BestShortSideFit(fr, k, width, height) ==
    /\ k \in Fits(fr, width, height)
    /\ \A j \in Fits(fr, width, height) :
          \/ ShortSide(fr[k], width, height) < ShortSide(fr[j], width, height)
          \/ /\ ShortSide(fr[k], width, height) = ShortSide(fr[j], width, height)
             /\ LongSide(fr[k], width, height) <= LongSide(fr[j], width, height)

AtBestOrigin(frame, fr, width, height) ==
    \E k \in 1..Len(fr) :
        /\ BestShortSideFit(fr, k, width, height)
        /\ frame.x = fr[k].x
        /\ frame.y = YU * fr[k].y

\* the frame of item, placed on the free rectangles fr, is where the claim of
\* C20 has it
PlacedAsClaimed(frame, item, fr, pad) ==
    /\ frame.name = item.name
    /\ IF frame.rotated
       THEN /\ Fits(fr, item.width + pad, item.height + pad) = {}
            /\ AtBestOrigin(frame, fr, item.height + pad, item.width + pad)
       ELSE AtBestOrigin(frame, fr, item.width + pad, item.height + pad)

\* neither orientation of item fits a rectangle of fr
FitsNowhere(item, fr, pad) ==
    /\ Fits(fr, item.width + pad, item.height + pad) = {}
    /\ Fits(fr, item.height + pad, item.width + pad) = {}

\* C20: in every attempt of the MaxRectangles search each item, in the order
\* of the attempt, is placed at the origin of a free rectangle with the best
\* short side fit (ties by the long side), rotated only when it fits no free
\* rectangle unrotated; an attempt fails only at an item that fits no free
\* rectangle in either orientation, the items before it placed.
C20_BestShortSideFit ==
    call = "packImagesWithMaxRectangles" =>
        \A a \in 1..Len(attempts) :
            LET sorted == SortImages(attempts[a].strategy, images)
                packed == attempts[a].packed
                width == attempts[a].width
            IN IF packed.ok
               THEN /\ Len(packed.frames) = Len(sorted)
                    /\ \A i \in 1..Len(sorted) :
                          PlacedAsClaimed(
                              packed.frames[i], sorted[i],
                              FreeAfter(SubSeq(packed.frames, 1, i - 1), padding, width),
                              padding)
               ELSE \E i \in 1..Len(sorted) :
                       LET before == maxRectanglesPack(SubSeq(sorted, 1, i - 1),
                                                       padding, width)
                       IN /\ before.ok
                          /\ FitsNowhere(sorted[i],
                                         FreeAfter(before.frames, padding, width),
                                         padding)

\* an attempt that placed an item rotated and an item where the best fit was
\* not the only fit
C20_Witness ==
    /\ call = "packImagesWithMaxRectangles"
    /\ \E a \in 1..Len(attempts) :
          /\ attempts[a].packed.ok
          /\ \E i \in 1..Len(attempts[a].packed.frames) :
                attempts[a].packed.frames[i].rotated
          /\ \E i \in 1..Len(attempts[a].packed.frames) :
                LET frame == attempts[a].packed.frames[i]
                    fr == FreeAfter(SubSeq(attempts[a].packed.frames, 1, i - 1),
                                    padding, attempts[a].width)
                    width == frame.width + padding
                    height == frame.height + padding
                IN \E k \in Fits(fr, width, height) :
                       ~BestShortSideFit(fr, k, width, height)

-----------------------------------------------------------------------------
(* The steps of packImagesInternal *)

\* the state [frames, shelves, newImages, placedThisRound] before each item of
\* the first pass and after the last one; the list ends at a null
RECURSIVE ShelfStates(_, _, _, _)
ShelfStates(imgs, pad, width, st) ==
    IF imgs = <<>> \/ ~st.ok THEN <<st>>
    ELSE <<st>> \o ShelfStates(Tail(imgs), pad, width,
                               shelfPlaceItem(Head(imgs), pad, width, st))

FirstPass(imgs, pad, width) ==
    ShelfStates(imgs, pad, width,
                [ok |-> TRUE, frames |-> <<>>, shelves |-> <<>>,
                 newImages |-> <<>>, placedThisRound |-> FALSE])

\* the step from before to after merged item into the last shelf
MergedIntoLast(before, after, item, pad, width) ==
    /\ after.ok
    /\ before.shelves # <<>>
    /\ Len(after.shelves) = Len(before.shelves)
    /\ findBestShelf(before.shelves, item, pad, width).shelf = 0

\* the frames of st that lie in the vertical band of shelf
OnShelf(st, shelf) ==
    {j \in 1..Len(st.frames) :
        /\ st.frames[j].y >= YU * shelf.y
        /\ st.frames[j].y < YU * (shelf.y + shelf.height)}

\* frame is centred in shelf: y = shelf.y + (shelf.height - frame.height) / 2
Centred(frame, shelf) == frame.y = YU * shelf.y + (shelf.height - frame.height)

\* C21: when an item is merged into the last shelf, the shelf's height
\* becomes the maximum of its old height and the candidate height, and the
\* new frame and every frame already on the shelf are centred in it.
C21_MergeRecenters ==
    call = "packImages" =>
        \A a \in 1..Len(attempts) :
            LET sorted == SortImages(attempts[a].strategy, images)
                states == FirstPass(sorted, padding, attempts[a].width)
            IN \A i \in 1..(Len(states) - 1) :
                   LET before == states[i]
                       after == states[i + 1]
                       n == Len(before.shelves)
                   IN MergedIntoLast(before, after, sorted[i], padding,
                                     attempts[a].width) =>
                          LET frame == after.frames[Len(after.frames)]
                              candidate == optimalHeightOf(
                                  Append(before.newImages, sorted[i]), frame.height)
                          IN /\ after.shelves[n].height
                                   = Max(before.shelves[n].height, candidate.height)
                             /\ Centred(frame, after.shelves[n])
                             /\ \A j \in OnShelf(before, before.shelves[n]) :
                                   Centred(after.frames[j], after.shelves[n])

\* the while loop of the Shelf attempt a of the search
ShelfRun(a) ==
    shelfRounds(SortImages(attempts[a].strategy, images), 0, padding,
                attempts[a].width, <<>>, <<>>)

C24_WithinWorkingWidth ==
    /\ \A a \in 1..Len(attempts) :
          attempts[a].packed.ok => attempts[a].packed.width <= attempts[a].width
    /\ (result.ok /\ ~usePowerOfTwo) => result.width <= Min(maxWidth, MAX_ATLAS_SIZE)

\* C25: every frame of a returned layout has integer x and y.
C25_IntegerCoordinates ==
    result.ok => \A i \in 1..Len(result.frames) : result.frames[i].y % YU = 0

\* C30: MultiAtlasPacker.pack packs with the padding of its options: the
\* atlases are those the packers make with options.padding, 0 included.
C30_PaddingAsGiven ==
    call = "pack" =>
        atlases = multiAtlasPack(images, packingAlgorithm, padding, maxWidth,
                                 usePowerOfTwo, maxImagesPerAtlas)

\* C27: resetStatistics leaves the selector as the constructor does, and a
\* recordResult call that follows it completes and leaves the statistics and
\* history a new selector has after the same call.
C27_ResetIsFresh ==
    [][/\ call' = "resetStatistics" =>
             statistics' = constructorStatistics /\ history' = <<>>
       /\ (call = "resetStatistics" /\ call' = "recordResult") =>
             LET last == recorded'[Len(recorded')]
                 fresh == recordResult(constructorStatistics, <<>>,
                                       last[1], last[2], last[3], now)
             IN /\ ~returned'.threw
                /\ statistics' = fresh.statistics
                /\ history' = fresh.history]_vars

-----------------------------------------------------------------------------
(* AlgorithmCache under bounded get and set calls *)

MaxLookups == 3

CacheSizes == {1, 2, 3}

\* the image lists the cache is asked about: the last two differ in order only
CacheImages ==
    {<<[name |-> 1, width |-> 10, height |-> 10]>>,
     <<[name |-> 1, width |-> 20, height |-> 20]>>,
     <<[name |-> 1, width |-> 10, height |-> 10], [name |-> 2, width |-> 20, height |-> 20]>>,
     <<[name |-> 1, width |-> 20, height |-> 20], [name |-> 2, width |-> 10, height |-> 10]>>}

CacheAlgorithms == {"maxRectangles", "shelf"}

CacheOptions == [padding |-> 2, maxWidth |-> 2048, usePowerOfTwo |-> TRUE]

\* what is cached for a list of images: frames that carry the images' names
CacheData(imgs) ==
    [frames |-> [i \in 1..Len(imgs) |-> [name |-> imgs[i].name]],
     width |-> 64, height |-> 64]

InitCache ==
    /\ images = <<>>
    /\ padding = CacheOptions.padding
    /\ maxWidth = CacheOptions.maxWidth
    /\ usePowerOfTwo = CacheOptions.usePowerOfTwo
    /\ packingAlgorithm = "maxRectangles"
    /\ maxImagesPerAtlas = 0
    /\ call = "none"
    /\ attempts = <<>>
    /\ result = null
    /\ mergedGroups = <<>>
    /\ groups = <<>>
    /\ atlases = <<>>
    /\ NoSelector
    /\ cache = <<>>
    /\ maxSize \in CacheSizes
    /\ hits = 0
    /\ misses = 0
    /\ recency = <<>>
    /\ evicted = NoEviction
    /\ atlasFrames = null
    /\ isProcessing = FALSE
    /\ generating = <<>>
    /\ isEnabled = TRUE
    /\ processing = FALSE
    /\ runs = <<>>

notCacheVars == <<padding, maxWidth, usePowerOfTwo, packingAlgorithm,
                  maxImagesPerAtlas, attempts, result, mergedGroups, groups,
                  atlases, selectorVars, atlasFrames, isProcessing, generating,
                  isEnabled, processing, runs>>

\* algorithmCache.get(images, algorithm, options)
CacheGet ==
    /\ hits + misses < MaxLookups
    /\ \E imgs \in CacheImages, algorithm \in CacheAlgorithms :
          \E got \in {cacheGet(cache, generateKey(imgs, algorithm, CacheOptions))} :
              /\ images' = imgs
              /\ cache' = got.cache
              /\ hits' = IF got.hit THEN hits + 1 ELSE hits
              /\ misses' = IF got.hit THEN misses ELSE misses + 1
              /\ recency' = IF got.hit
                            THEN touch(recency,
                                       generateKey(imgs, algorithm, CacheOptions))
                            ELSE recency
    /\ call' = "get"
    /\ UNCHANGED <<maxSize, evicted>>
    /\ UNCHANGED notCacheVars

\* algorithmCache.set(images, algorithm, options, result)
CacheSet ==
    /\ \E imgs \in CacheImages, algorithm \in CacheAlgorithms :
          \E put \in {cacheSet(cache, maxSize,
                               generateKey(imgs, algorithm, CacheOptions),
                               CacheData(imgs))} :
              /\ images' = imgs
              /\ cache' = put.cache
              /\ evicted' = IF put.deleted
                            THEN [deleted |-> TRUE, firstKey |-> put.firstKey,
                                  leastRecentlyUsed |-> Head(recency)]
                            ELSE NoEviction
              /\ recency' = touch(IF put.deleted
                                  THEN SelectSeq(recency,
                                                 LAMBDA k : k # put.firstKey)
                                  ELSE recency,
                                  generateKey(imgs, algorithm, CacheOptions))
    /\ call' = "set"
    /\ UNCHANGED <<maxSize, hits, misses>>
    /\ UNCHANGED notCacheVars

NextCache == CacheGet \/ CacheSet

SpecCache == InitCache /\ [][NextCache]_vars

\* C23: the cache holds at most maxSize entries, and an entry that a set
\* deletes to make room is the least recently used one.
C23_LeastRecentlyUsed ==
    /\ Len(cache) <= maxSize
    /\ evicted.deleted => evicted.firstKey = evicted.leastRecentlyUsed

-----------------------------------------------------------------------------
(* BatchProcessor under processBatch and cancel calls *)

\* new BatchProcessor(5, 20): the processor of the app
BATCH_SIZE == 5

\* the runs of processBatch that may be in flight together
MaxBatches == 3

\* items.length of the calls
BatchTotals == {0, 3, 7}

InitBatch ==
    /\ images = <<>>
    /\ padding = DEFAULT_PADDING
    /\ maxWidth = DEFAULT_MAX_WIDTH
    /\ usePowerOfTwo = TRUE
    /\ packingAlgorithm = "maxRectangles"
    /\ maxImagesPerAtlas = 0
    /\ call = "none"
    /\ attempts = <<>>
    /\ result = null
    /\ mergedGroups = <<>>
    /\ groups = <<>>
    /\ atlases = <<>>
    /\ NoSelector
    /\ NoApp

notBatchVars == <<images, padding, maxWidth, usePowerOfTwo, packingAlgorithm,
                  maxImagesPerAtlas, attempts, result, mergedGroups, groups,
                  atlases, selectorVars, cacheVars, atlasFrames, isProcessing,
                  generating, isEnabled>>

\* the runs without the one at position r
withoutRun(r) == [k \in 1..(Len(runs) - 1) |-> IF k < r THEN runs[k] ELSE runs[k + 1]]

\* processBatch(items, processor), up to its first await: a call made while
\* processing is set throws; a call with no items passes the loop and its
\* finally block at once.
ProcessBatch ==
    /\ Len(runs) < MaxBatches
    /\ \E totalItems \in BatchTotals :
          IF processing
          THEN /\ call' = "processBatch throws"
               /\ UNCHANGED <<processing, runs>>
          ELSE IF totalItems = 0
          THEN /\ call' = "processBatch returns"
               /\ processing' = FALSE
               /\ UNCHANGED runs
          ELSE /\ call' = "processBatch"
               /\ processing' = TRUE
               /\ runs' = Append(runs, [totalItems |-> totalItems,
                                        processedItems |-> 0,
                                        awaiting |-> "batch"])
    /\ UNCHANGED notBatchVars

\* Promise.all of a batch resolves: the run counts the batch, and either
\* sleeps before the next batch or leaves the loop through the finally block.
BatchResolved ==
    /\ \E r \in 1..Len(runs) :
          /\ runs[r].awaiting = "batch"
          /\ IF runs[r].processedItems + BATCH_SIZE < runs[r].totalItems
             THEN /\ runs' = [runs EXCEPT ![r].processedItems = @ + BATCH_SIZE,
                                          ![r].awaiting = "sleep"]
                  /\ call' = "progress"
                  /\ UNCHANGED processing
             ELSE /\ runs' = withoutRun(r)
                  /\ call' = "processBatch returns"
                  /\ processing' = FALSE
    /\ UNCHANGED notBatchVars

\* Promise.all of a batch rejects: the run leaves through the finally block.
BatchRejected ==
    /\ \E r \in 1..Len(runs) :
          /\ runs[r].awaiting = "batch"
          /\ runs' = withoutRun(r)
    /\ call' = "processBatch rejects"
    /\ processing' = FALSE
    /\ UNCHANGED notBatchVars

\* the sleep between two batches ends: the next batch starts
SleepDone ==
    /\ \E r \in 1..Len(runs) :
          /\ runs[r].awaiting = "sleep"
          /\ runs' = [runs EXCEPT ![r].awaiting = "batch"]
    /\ call' = "sleep"
    /\ UNCHANGED processing
    /\ UNCHANGED notBatchVars

\* cancel()
Cancel ==
    /\ processing' = FALSE
    /\ call' = "cancel"
    /\ UNCHANGED runs
    /\ UNCHANGED notBatchVars

NextBatch ==
    \/ ProcessBatch
    \/ BatchResolved
    \/ BatchRejected
    \/ SleepDone
    \/ Cancel

SpecBatch == InitBatch /\ [][NextBatch]_vars

\* C28: at most one run of processBatch is in flight, and processing is
\* set exactly while a run is in flight.
C28_OneRunAtATime ==
    /\ Len(runs) <= 1
    /\ processing <=> runs # <<>>

-----------------------------------------------------------------------------
(* The enhanced app: add-images, remove-image, clear and generateAtlas *)

\* new AlgorithmCache(50): the cache of the app
APP_CACHE_SIZE == 50

\* the generateAtlas calls that reach the cache
MaxGenerations == 2

\* the generateAtlas calls that wait for their packer together
MaxPending == 1

\* the images loaded together at most
MaxLoaded == 2

\* the files the user can load: the first two have the same size, the third
\* is larger than maxWidth
AppImages == <<[name |-> 1, width |-> 20, height |-> 20],
               [name |-> 2, width |-> 20, height |-> 20],
               [name |-> 3, width |-> 100, height |-> 100]>>

InitApp ==
    /\ images = <<>>
    /\ padding = 2
    /\ maxWidth = 64
    /\ usePowerOfTwo = TRUE
    /\ packingAlgorithm \in {"maxRectangles", "shelf"}
    /\ maxImagesPerAtlas = 0
    /\ call = "none"
    /\ attempts = <<>>
    /\ result = null
    /\ mergedGroups = <<>>
    /\ groups = <<>>
    /\ atlases = <<>>
    /\ NoSelector
    /\ cache = <<>>
    /\ maxSize = APP_CACHE_SIZE
    /\ hits = 0
    /\ misses = 0
    /\ recency = <<>>
    /\ evicted = NoEviction
    /\ atlasFrames = null
    /\ isProcessing = FALSE
    /\ generating = <<>>
    /\ isEnabled = TRUE
    /\ processing = FALSE
    /\ runs = <<>>

settingsVars == <<padding, maxWidth, usePowerOfTwo, packingAlgorithm,
                  maxImagesPerAtlas, attempts, result, mergedGroups, groups,
                  atlases, maxSize, processing, runs>>

\* cacheKey = { padding, maxWidth, usePowerOfTwo }
cacheKey == [padding |-> padding, maxWidth |-> maxWidth,
             usePowerOfTwo |-> usePowerOfTwo]

\* canvas.height = height: a canvas has whole pixels
canvasHeight(res) == res.height \div YU

\* validateFrames(frames, atlasWidth, atlasHeight) does not throw
validateFrames(frames, atlasWidth, atlasHeight) ==
    \A i \in 1..Len(frames) :
        /\ frames[i].x >= 0
        /\ frames[i].y >= 0
        /\ frames[i].x + frames[i].width <= atlasWidth
        /\ frames[i].y + YU * frames[i].height <= YU * atlasHeight
        /\ frames[i].width <= atlasWidth
        /\ frames[i].height <= atlasHeight

\* parseFloat(calculateEfficiency(images, atlasWidth, atlasHeight)): the
\* percentage with two decimals, in hundredths of a percent; NaN, which is
\* not greater than 0, is 0 here
calculateEfficiency(imgs, atlasWidth, atlasHeight) ==
    IF atlasWidth * atlasHeight = 0 THEN 0
    ELSE (2 * 10000 * SumArea(imgs) + atlasWidth * atlasHeight)
            \div (2 * atlasWidth * atlasHeight)

\* restoreFromCache(cacheData)
restoreFromCache(cacheData) ==
    Layout(cacheData.frames, cacheData.width, cacheData.height)

\* the recordResult calls of one generateAtlas call, in order
RECURSIVE recordAll(_, _, _, _)
recordAll(stats, hist, records, timestamp) ==
    IF records = <<>> THEN [statistics |-> stats, history |-> hist]
    ELSE LET after == recordResult(stats, hist, records[1][1], records[1][2],
                                   records[1][3], timestamp)
         IN recordAll(after.statistics, after.history, Tail(records),
                      timestamp + 1)

\* generateAtlas from `if (!result)` to its end, for the call numbered id
\* whose packer or cache returned res: validateFrames, endMeasure,
\* setAtlasResult, recordResult and the notification, or the catch block.
\* endMeasure returns undefined when monitoring was disabled at startMeasure,
\* and duration.toFixed then throws after the atlas was installed.
FinishGenerate(res, measured, id) ==
    LET installs == /\ res.ok
                    /\ validateFrames(res.frames, res.width, canvasHeight(res))
        efficiency == calculateEfficiency(images, res.width, canvasHeight(res))
        records == IF ~installs
                   THEN <<<<packingAlgorithm, FALSE, 0>>>>
                   ELSE IF measured
                   THEN <<<<packingAlgorithm, TRUE, efficiency>>>>
                   ELSE <<<<packingAlgorithm, TRUE, efficiency>>,
                          <<packingAlgorithm, FALSE, 0>>>>
    IN /\ atlasFrames' = IF installs
                         THEN [ok |-> TRUE, canvas |-> id, frames |-> res.frames]
                         ELSE atlasFrames
       /\ isProcessing' = FALSE
       /\ \E after \in {recordAll(statistics, history, records, now)} :
             /\ statistics' = after.statistics
             /\ history' = after.history
       /\ recorded' = recorded \o records
       /\ now' = now + Len(records)
       /\ returned' = undefined

\* handleFiles, once the files are loaded: appState.addImages(newImages)
\* assigns a new array, the calls in flight keep the old one; the files are
\* loaded in the order of AppImages
AddImages ==
    /\ \E f \in 1..Len(AppImages) :
          /\ Len(images) < MaxLoaded
          /\ \A i \in 1..Len(images) : images[i].name < AppImages[f].name
          /\ images' = Append(images, AppImages[f])
    /\ generating' = [k \in 1..Len(generating) |->
                         [generating[k] EXCEPT !.aliased = FALSE]]
    /\ call' = "addImages"
    /\ UNCHANGED <<atlasFrames, isProcessing, isEnabled>>
    /\ UNCHANGED <<cache, hits, misses, recency, evicted>>
    /\ UNCHANGED selectorVars
    /\ UNCHANGED settingsVars

\* appState.removeImage(index): splices the array in place, so a call in
\* flight that holds this array loses the image too
RemoveImage ==
    /\ \E index \in 1..Len(images) :
          /\ images' = RemoveAt(images, index)
          /\ generating' = [k \in 1..Len(generating) |->
                               IF generating[k].aliased
                               THEN [generating[k] EXCEPT
                                        !.images = RemoveAt(images, index)]
                               ELSE generating[k]]
          /\ atlasFrames' = IF Len(images) = 1 THEN null ELSE atlasFrames
    /\ call' = "removeImage"
    /\ UNCHANGED <<isProcessing, isEnabled>>
    /\ UNCHANGED <<cache, hits, misses, recency, evicted>>
    /\ UNCHANGED selectorVars
    /\ UNCHANGED settingsVars

\* the clear button: appState.clear()
Clear ==
    /\ images # <<>> \/ atlasFrames # null
    /\ images' = <<>>
    /\ atlasFrames' = null
    /\ isProcessing' = FALSE
    /\ generating' = [k \in 1..Len(generating) |->
                         [generating[k] EXCEPT !.aliased = FALSE]]
    /\ call' = "clear"
    /\ UNCHANGED isEnabled
    /\ UNCHANGED <<cache, hits, misses, recency, evicted>>
    /\ UNCHANGED selectorVars
    /\ UNCHANGED settingsVars

\* analytics.setEnabled(enabled)
SetEnabled ==
    /\ \E enabled \in BOOLEAN :
          /\ enabled # isEnabled
          /\ isEnabled' = enabled
    /\ call' = "setEnabled"
    /\ UNCHANGED <<images, atlasFrames, isProcessing, generating>>
    /\ UNCHANGED <<cache, hits, misses, recency, evicted>>
    /\ UNCHANGED selectorVars
    /\ UNCHANGED settingsVars

\* the generate button, enabled while there are images and isProcessing is
\* not set: generateAtlas up to the await of its packer, or to its end when
\* the cache has the key
GenerateAtlas ==
    /\ images # <<>>
    /\ ~isProcessing
    /\ hits + misses < MaxGenerations
    /\ Len(generating) < MaxPending
    /\ \E got \in {cacheGet(cache, generateKey(images, packingAlgorithm, cacheKey))} :
          /\ cache' = got.cache
          /\ IF got.hit
             THEN /\ hits' = hits + 1
                  /\ recency' = touch(recency, generateKey(images, packingAlgorithm,
                                                           cacheKey))
                  /\ FinishGenerate(restoreFromCache(got.value), isEnabled,
                                    hits + misses + 1)
                  /\ UNCHANGED <<misses, generating>>
             ELSE /\ misses' = misses + 1
                  /\ isProcessing' = TRUE
                  /\ generating' = Append(generating,
                                          [id |-> hits + misses + 1,
                                           images |-> images,
                                           aliased |-> TRUE,
                                           invoked |-> images,
                                           measured |-> isEnabled])
                  /\ UNCHANGED <<hits, recency, atlasFrames>>
                  /\ UNCHANGED selectorVars
    /\ call' = "generateAtlas"
    /\ UNCHANGED <<images, isEnabled, evicted>>
    /\ UNCHANGED settingsVars

\* the timer of generateWithMaxRectangles or generateWithShelf fires: the
\* packer runs on the array the call was given, and generateAtlas resumes:
\* it caches the result under the key of appState.images and goes on to its end
PackerDone ==
    /\ generating # <<>>
    /\ \E g \in {Head(generating)} :
       \E res \in {IF packingAlgorithm = "maxRectangles"
                   THEN packImagesWithMaxRectangles(g.images, padding, maxWidth,
                                                    usePowerOfTwo)
                   ELSE packImages(g.images, padding, maxWidth, usePowerOfTwo)} :
          /\ IF res.ok
             THEN \E put \in {cacheSet(cache, maxSize,
                                       generateKey(images, packingAlgorithm, cacheKey),
                                       [frames |-> res.frames, width |-> res.width,
                                        height |-> res.height])} :
                     /\ cache' = put.cache
                     /\ evicted' = IF put.deleted
                                   THEN [deleted |-> TRUE, firstKey |-> put.firstKey,
                                         leastRecentlyUsed |-> Head(recency)]
                                   ELSE NoEviction
                     /\ recency' = touch(IF put.deleted
                                         THEN SelectSeq(recency,
                                                        LAMBDA k : k # put.firstKey)
                                         ELSE recency,
                                         generateKey(images, packingAlgorithm, cacheKey))
             ELSE UNCHANGED <<cache, evicted, recency>>
          /\ FinishGenerate(res, g.measured, g.id)
    /\ generating' = Tail(generating)
    /\ call' = "generateAtlas resumes"
    /\ UNCHANGED <<images, isEnabled, hits, misses>>
    /\ UNCHANGED settingsVars

NextApp ==
    \/ AddImages
    \/ RemoveImage
    \/ Clear
    \/ SetEnabled
    \/ GenerateAtlas
    \/ PackerDone

SpecApp == InitApp /\ [][NextApp]_vars

\* the frames are one frame for each of the images, carrying its name
OneFramePerImage(frames, imgs) ==
    /\ Len(frames) = Len(imgs)
    /\ \A f \in 1..Len(AppImages) :
          Cardinality({i \in 1..Len(frames) : frames[i].name = AppImages[f].name})
              = Cardinality({i \in 1..Len(imgs) : imgs[i].name = AppImages[f].name})

\* the step installs the atlas of the generateAtlas call numbered id
Installs(id) ==
    /\ atlasFrames'.ok
    /\ atlasFrames'.canvas = id
    /\ atlasFrames' # atlasFrames

\* C26: an atlas that generateAtlas installs has one frame for each image
\* that was loaded when generateAtlas was called, with that image's name, and
\* every cache entry is stored under the key of the images its frames are of.
C26_AtlasOfLoadedImages ==
    [][/\ (hits' > hits /\ Installs(hits' + misses')) =>
              OneFramePerImage(atlasFrames'.frames, images)
       /\ (Len(generating') < Len(generating) /\ Installs(generating[1].id)) =>
              OneFramePerImage(atlasFrames'.frames, generating[1].invoked)
       /\ \A e \in 1..Len(cache') :
              \E imgs \in {[i \in 1..Len(cache'[e].value.frames) |->
                               [width |-> cache'[e].value.frames[i].originalWidth,
                                height |-> cache'[e].value.frames[i].originalHeight]]} :
                  cache'[e].key.imageHashes
                      = generateKey(imgs, packingAlgorithm, cacheKey).imageHashes]_vars

\* the step ends the generateAtlas call numbered id
Ends(id) ==
    \/ hits' > hits /\ id = hits' + misses'
    \/ Len(generating') < Len(generating) /\ id = generating[1].id

\* C29: a generateAtlas call that reached the packing step records one result
\* with the selector when it ends, with success exactly when it installed
\* its atlas.
C29_OneResultPerCall ==
    [][\A id \in 1..MaxGenerations :
          Ends(id) =>
              /\ Len(recorded') = Len(recorded) + 1
              /\ recorded'[Len(recorded')][2] <=> Installs(id)]_vars

====
